---- MODULE Spec2Model ----
(***************************************************************************)
(* Model of kg_manager.py: the in-memory knowledge graph G and the         *)
(* embeddings table, the three files they are persisted to                 *)
(* (careerhunt_kg.gpickle, embeddings.json, new_nodes_log.json), the       *)
(* incremental insert add_node_with_neighbors, the full rebuild            *)
(* nightly_retrain and the module-level load.                              *)
(*                                                                         *)
(* The module body of kg_manager.py ends in the scheduler loop, so         *)
(* add_node_with_neighbors can only run on other threads of the process.   *)
(* The code takes no lock: each thread's statements interleave with the    *)
(* statements of the others. A step of the model is one statement (or one  *)
(* block of statements that touches one shared object).                    *)
(***************************************************************************)
EXTENDS Integers, Sequences, FiniteSets, TLC

\* ------------------------------------------------------------- bounds
MaxOps == 2        \* operations (insert calls, rebuilds) started in one behaviour
MaxFaults == 1     \* failed statements (I/O and training errors) in one behaviour
DayLen == 2        \* passes of the scheduler loop in one day
MaxTime == 5       \* passes of the scheduler loop in one behaviour
MaxRequests == 2     \* requests the service answers

\* ------------------------------------------------------------- constants
EmbDim == 32       \* size=32 / dimensions=32

NodeTypes == {"job", "skill", "company"}

\* A node without a "type" attribute (created implicitly by G.add_edge).
NoType == "none"
\* An edge without a "relation" attribute.
NoRel == "none"

\* A file is [st |-> its state, v |-> its content]: the content counts only
\* when st is Ok; a Missing or Corrupt file cannot be read.
Ok == "ok"
Missing == "missing"
Corrupt == "corrupt"

\* ------------------------------------------------------------- ids
\* A node id is the pair <<prefix, rest>>: "job_42" is <<"job_", "42">>.
\* startswith(p) is a test of the first component.
startswith(n, p) == n[1] = p

JobId(x) == <<"job_", x>>
CompanyId(x) == <<"company_", x>>
SkillId(x) == <<"skill_", x>>

\* Ids the callers use, in names and in neighbor lists.
\* The rest of an id is a string of characters, written as a sequence.
CallNames == {JobId(<<"2">>), SkillId(<<"g">>)}
CallTypes == {"job", "skill", "bogus"}
\* The neighbor lists they pass: none, one known prefix, an unknown prefix,
\* two ids in both orders, one id twice.
NbrLists ==
    { <<>>,
      << SkillId(<<"g">>) >>,
      << <<"", <<"m">> >> >>,
      << SkillId(<<"g">>), CompanyId(<<"a">>) >>,
      << CompanyId(<<"a">>), SkillId(<<"g">>) >>,
      << SkillId(<<"g">>), SkillId(<<"g">>) >> }

\* ------------------------------------------------------------- graph
\* A graph is [node |-> id -> attribute dict, edge |-> {u, v} -> attribute dict];
\* an attribute dict is a function from attribute names to values.
NoAttrs == [a \in {} |-> ""]
EmptyGraph == [node |-> [n \in {} |-> NoAttrs], edge |-> [e \in {} |-> NoAttrs]]

Nodes(g) == DOMAIN g.node
Edges(g) == DOMAIN g.edge

\* Dict update: the keys of new override those of old.
Update(old, new) ==
    [a \in DOMAIN old \cup DOMAIN new |-> IF a \in DOMAIN new THEN new[a] ELSE old[a]]

\* nx.Graph.add_node(n, **attrs): creates n or updates its attributes.
add_node(g, n, attrs) ==
    [g EXCEPT !.node =
        [m \in Nodes(g) \cup {n} |->
            IF m = n
            THEN Update(IF n \in Nodes(g) THEN g.node[n] ELSE NoAttrs, attrs)
            ELSE g.node[m]]]

\* nx.Graph.add_edge(u, v, **attrs): creates missing endpoints without
\* attributes, then creates the undirected edge or updates its attributes.
add_edge(g, u, v, attrs) ==
    LET e == {u, v} IN
    [node |-> [m \in Nodes(g) \cup e |->
                  IF m \in Nodes(g) THEN g.node[m] ELSE NoAttrs],
     edge |-> [f \in Edges(g) \cup {e} |->
                  IF f = e
                  THEN Update(IF e \in Edges(g) THEN g.edge[e] ELSE NoAttrs, attrs)
                  ELSE g.edge[f]]]

NodeType(g, n) == IF "type" \in DOMAIN g.node[n] THEN g.node[n]["type"] ELSE NoType
EdgeRel(g, e) == IF "relation" \in DOMAIN g.edge[e] THEN g.edge[e]["relation"] ELSE NoRel

\* ------------------------------------------------------------- vectors
\* A vector component is the rational <<numerator, denominator>> in lowest
\* terms with a positive denominator.
RECURSIVE Gcd(_, _)
Gcd(a, b) == IF b = 0 THEN a ELSE Gcd(b, a % b)

Abs(x) == IF x < 0 THEN -x ELSE x

Rat(n, d) ==
    LET g == Gcd(Abs(n), d) IN
    IF n = 0 THEN <<0, 1>> ELSE <<n \div g, d \div g>>

RatAdd(p, q) == Rat(p[1] * q[2] + q[1] * p[2], p[2] * q[2])
RatDivInt(p, k) == Rat(p[1], p[2] * k)

RECURSIVE RatSum(_)
RatSum(s) == IF s = <<>> THEN <<0, 1>> ELSE RatAdd(Head(s), RatSum(Tail(s)))

\* np.array(vecs).sum(axis=0) in the place of the mean.
MeanVecNoDivide(vecs) ==
    [i \in 1..Len(vecs[1]) |-> RatSum([k \in 1..Len(vecs) |-> vecs[k][i]])]

\* np.array(vecs).mean(axis=0): the elementwise mean of a non-empty list of
\* vectors of one length.
MeanVec(vecs) ==
    [i \in 1..Len(vecs[1]) |->
        RatDivInt(RatSum([k \in 1..Len(vecs) |-> vecs[k][i]]), Len(vecs))]

\* np.random.normal(scale=0.01, size=32): any of the draws below. A draw is
\* named by an integer d; its components are d/100 and -d/200 alternately.
ColdDraws == {-1, 1}
ColdVec(d) == [i \in 1..EmbDim |-> IF i % 2 = 1 THEN Rat(d, 100) ELSE Rat(-d, 200)]

\* ------------------------------------------------------------- rebuild data
\* str.split(","): the pieces of s between commas.
RECURSIVE Split(_)
Split(s) ==
    IF s = <<>> THEN << <<>> >>
    ELSE LET r == Split(Tail(s)) IN
         IF Head(s) = "," THEN << <<>> >> \o r
         ELSE << <<Head(s)>> \o Head(r) >> \o Tail(r)

\* str.strip(): s without its leading and trailing blanks.
RECURSIVE LStrip(_)
LStrip(s) == IF s # <<>> /\ Head(s) = " " THEN LStrip(Tail(s)) ELSE s
RECURSIVE RStrip(_)
RStrip(s) ==
    IF s # <<>> /\ s[Len(s)] = " " THEN RStrip(SubSeq(s, 1, Len(s) - 1)) ELSE s
Strip(s) == RStrip(LStrip(s))

\* An empty required_skills cell is read by pandas as NaN, a float without
\* a split method.
IsNaN(cell) == cell = <<>>

Row(id, title, company, skills) ==
    [job_id |-> id, title |-> title, company |-> company, required_skills |-> skills]

\* The contents jobs.csv may have when it is read.
Datasets ==
    { << Row(<<"1">>, "dev", <<"a">>, <<"g">>) >>,
      << Row(<<"1">>, "dev", <<"a">>, <<"g", ",", " ", "r">>),
         Row(<<"3">>, "ops", <<"a">>, <<"r", ",", "r">>) >>,
      << Row(<<"1">>, "dev", <<"a">>, <<>>) >>,
      << >> }

\* Lines 89-93 without the strip of line 90.
RECURSIVE AddSkillsNoStrip(_, _, _)
AddSkillsNoStrip(g, job_node, skills) ==
    IF skills = <<>> THEN g
    ELSE LET skill == Head(skills)
             skill_node == SkillId(skill)
             g1 == add_node(g, skill_node, [type |-> "skill", name |-> skill])
             g2 == add_edge(g1, job_node, skill_node, [relation |-> "REQUIRES_SKILL"])
         IN AddSkillsNoStrip(g2, job_node, Tail(skills))

\* Lines 89-93: the skill nodes and edges of one row, skill by skill.
RECURSIVE AddSkills(_, _, _)
AddSkills(g, job_node, skills) ==
    IF skills = <<>> THEN g
    ELSE LET skill == Strip(Head(skills))
             skill_node == SkillId(skill)
             g1 == add_node(g, skill_node, [type |-> "skill", name |-> skill])
             g2 == add_edge(g1, job_node, skill_node, [relation |-> "REQUIRES_SKILL"])
         IN AddSkills(g2, job_node, Tail(skills))

\* Lines 83-93 with the relation of line 87 left out.
AddRowUnlabelled(g, row) ==
    LET job_node == JobId(row.job_id)
        company_node == CompanyId(row.company)
        g1 == add_node(g, job_node,
                 [type |-> "job", title |-> row.title, company |-> row.company])
        g2 == add_node(g1, company_node, [type |-> "company", name |-> row.company])
        g3 == add_edge(g2, job_node, company_node, NoAttrs)
    IN AddSkills(g3, job_node, Split(row.required_skills))

\* Lines 83-93: the loop body for one row.
AddRow(g, row) ==
    LET job_node == JobId(row.job_id)
        company_node == CompanyId(row.company)
        g1 == add_node(g, job_node,
                 [type |-> "job", title |-> row.title, company |-> row.company])
        g2 == add_node(g1, company_node, [type |-> "company", name |-> row.company])
        g3 == add_edge(g2, job_node, company_node, [relation |-> "POSTED_BY"])
    IN AddSkills(g3, job_node, Split(row.required_skills))

\* Lines 81-93: G_new built from the rows in order.
RECURSIVE BuildGraph(_, _)
BuildGraph(g, rows) ==
    IF rows = <<>> THEN g ELSE BuildGraph(AddRow(g, Head(rows)), Tail(rows))

\* The loop raises at the first row whose required_skills is NaN.
BuildFails(rows) == \E k \in 1..Len(rows) : IsNaN(rows[k].required_skills)

\* model.wv[node]: a trained vector of EmbDim components. Training is not
\* reproducible; a run is named by its seed.
TrainSeeds == {1, 2}
NodeCode(n) ==
    IF startswith(n, "job_") THEN 1
    ELSE IF startswith(n, "company_") THEN 2 ELSE 3 + Len(n[2])
TrainedVec(n, seed) == [i \in 1..EmbDim |-> Rat(seed * NodeCode(n) + (i % 2), 10)]

\* Line 99: one trained vector per node of G_new.
TrainedEmbeddings(g, seed) == [n \in Nodes(g) |-> TrainedVec(n, seed)]

\* ------------------------------------------------------------- state
Callers == {"t1", "t2"}

VARIABLES
    G,               \* the global graph
    embeddings,      \* the global dict id -> vector
    fG,              \* the file careerhunt_kg.gpickle (a graph)
    fE,              \* the file embeddings.json (a dict)
    fLog,            \* the file new_nodes_log.json (a list of entries)
    ipc,             \* per caller: the statement add_node_with_neighbors is at
    iarg,            \* per caller: the arguments of its current or last call
    ilog,            \* per caller: the local list `log` of log_new_node
    ires,            \* per caller: how the last call ended
    rpc,             \* the statement nightly_retrain is at on the main thread
    rres,            \* how the last nightly_retrain ended
    jobs,            \* nightly_retrain's local jobs
    G_new,           \* nightly_retrain's local G_new
    new_embeddings,  \* nightly_retrain's local new_embeddings
    ops,             \* operations started so far
    faults,          \* statements failed so far
    pre,             \* history: the store when the running rebuild began to write
    stale,           \* history: nodes of the graph when the running rebuild
                     \* began that no call in flight since then has named
    now,             \* the wall clock, in passes of the scheduler loop
    next_run,        \* when the scheduled job is next due
    man,             \* a second activation of nightly_retrain, on another thread
    missed           \* history: trigger instants that came with no loop polling

\* The service of backend/main.py: one request at a time, as the handlers
\* are coroutines that never await.
VARIABLES
    CLOUDINARY_AVAILABLE, \* main.py's global, set by the import at lines 38-45
    gemini_client,        \* main.py's global, None until startup sets it
    job_cv_collection,    \* main.py's global: None, or the documents by id
    cpc,             \* the statement the request being served is at
    endpoint,        \* the handler serving it
    resume_url,      \* the URL the request carries
    url,             \* download_and_parse_cv's url
    original_url,    \* download_and_parse_cv's original_url
    urls_to_try,     \* download_and_parse_cv's urls_to_try
    response,        \* download_and_parse_cv's response
    last_error,      \* download_and_parse_cv's last_error
    cv_text,         \* what download_and_parse_cv returned
    raised,          \* the exception in flight, None when there is none
    skills,          \* what extract_skills_and_link_kg returned
    reply,           \* what the handler answered
    calls,           \* history: the helpers the handler has called
    tried,           \* history: the requests of the loop of lines 400-440
    served           \* requests answered so far

vars == <<G, embeddings, fG, fE, fLog, ipc, iarg, ilog, ires,
          rpc, rres, jobs, G_new, new_embeddings, ops, faults, pre, stale,
          now, next_run, man, missed,
          CLOUDINARY_AVAILABLE, gemini_client, job_cv_collection, cpc, endpoint,
          resume_url, url, original_url, urls_to_try, response, last_error,
          cv_text, raised, skills, reply, calls, tried, served>>

store == <<G, embeddings, fG, fE, fLog>>
inserter == <<ipc, iarg, ilog, ires>>
rebuilder == <<rpc, rres, jobs, G_new, new_embeddings, pre>>
sched == <<now, next_run, man, missed>>
service == <<CLOUDINARY_AVAILABLE, gemini_client, job_cv_collection>>
download == <<url, original_url, urls_to_try, response, last_error, tried>>
cv == <<service, download, cpc, endpoint, resume_url, cv_text, raised, skills,
        reply, calls, served>>

\* ------------------------------------------------------ main.py: strings
\* A string of main.py is the sequence of its pieces; the substrings the
\* code looks for are pieces of their own.
None == "None"
Contains(s, piece) == \E i \in 1..Len(s) : s[i] = piece
Find(s, piece) ==
    IF Contains(s, piece)
    THEN CHOOSE i \in 1..Len(s) : s[i] = piece /\ \A j \in 1..(i - 1) : s[j] # piece
    ELSE 0
\* s.split(piece)[0] and s.split(piece)[1].
SplitHead(s, piece) ==
    IF Contains(s, piece) THEN SubSeq(s, 1, Find(s, piece) - 1) ELSE s
SplitSecond(s, piece) == SplitHead(SubSeq(s, Find(s, piece) + 1, Len(s)), piece)
\* s.replace(old, new).
Replace(s, old, new) == [i \in 1..Len(s) |-> IF s[i] = old THEN new ELSE s[i]]
\* s.lower().
Lower(s) == [i \in 1..Len(s) |-> IF s[i] = ".PDF" THEN ".pdf" ELSE s[i]]
EndsWith(s, piece) == Len(s) > 0 /\ s[Len(s)] = piece
StartsWith(s, piece) == Len(s) > 0 /\ s[1] = piece
\* The pieces with 'upload' in them.
UploadPieces == {"/image/upload/", "/raw/upload/", "upload"}
ContainsUpload(s) == \E piece \in UploadPieces : Contains(s, piece)

\* The URLs a request may carry: Cloudinary links with and without a query
\* and an /image/ path, Google Drive links of both forms and two with no
\* file id, and plain links.
CvUrls ==
    { <<"cloudinary.com", "/image/upload/", "v1", "/", "cv", ".pdf">>,
      <<"cloudinary.com", "/image/upload/", "v1", "/", "cv", ".pdf", "?", "t=1">>,
      <<"cloudinary.com", "/raw/upload/", "v1", "/", "cv", ".pdf", "?", "t=1">>,
      <<"drive.google.com", "/file/d/", "F", "/", "view">>,
      <<"drive.google.com", "/open", "?", "id=", "F", "&", "usp=sharing">>,
      <<"drive.google.com", "/file/d/", "/", "view">>,
      <<"drive.google.com", "/drive/folders/", "X">>,
      <<"example.com", "/", "cv", ".PDF">>,
      <<"example.com", "/", "cv", ".docx">> }

\* Lines 195-209: the file id of a Google Drive link, empty when there is none.
FileId(u) ==
    IF Contains(u, "/file/d/") THEN SplitHead(SplitSecond(u, "/file/d/"), "/")
    ELSE IF Contains(u, "id=") THEN SplitHead(SplitSecond(u, "id="), "&")
    ELSE <<>>
\* Line 208.
DriveDownloadUrl(file_id) ==
    <<"drive.google.com", "/uc", "?", "export=download", "&", "id=">> \o file_id
\* Lines 416-419: the URL a Google Drive attempt asks for.
RequestUrl(attempt_url) ==
    IF Contains(attempt_url, "drive.google.com") /\ Contains(attempt_url, "id=")
    THEN DriveDownloadUrl(SplitHead(SplitSecond(attempt_url, "id="), "&"))
             \o <<"&", "confirm=t">>
    ELSE attempt_url

\* Lines 372-394 with the candidates in another order: the URL as given first.
UrlsToTryOriginalFirst(u, orig) ==
    IF Contains(u, "cloudinary.com") /\ ContainsUpload(u)
    THEN LET base_url == SplitHead(u, "?")
             raw == IF Contains(base_url, "/image/upload/")
                    THEN << Replace(base_url, "/image/upload/", "/raw/upload/") >>
                    ELSE <<>>
         IN  <<orig>> \o raw \o <<base_url>>
    ELSE <<u>>

\* Lines 372-394: the candidates of the direct download.
UrlsToTry(u, orig) ==
    IF Contains(u, "cloudinary.com") /\ ContainsUpload(u)
    THEN LET base_url == SplitHead(u, "?")
             raw == IF Contains(base_url, "/image/upload/")
                    THEN << Replace(base_url, "/image/upload/", "/raw/upload/") >>
                    ELSE <<>>
         IN  raw \o <<base_url, orig>>
    ELSE <<u>>

\* What requests.get gives: a response with a status, or a
\* requests.exceptions.RequestException; raise_for_status raises HTTPError,
\* one of these, on a 4xx or 5xx status.
Statuses == {200, 204, 401, 404}
RequestExceptions == {"ConnectionError", "HTTPError"}
\* The body of a 200 response: whether it begins with %PDF, its
\* Content-Type, whether reading it works, and what pdfplumber makes of it:
\* the stripped text of its pages, or an exception.
Texts == { <<>>, <<"Python", "SQL">> }
Unparsable == <<"PDFSyntaxError">>
Bodies ==
    { [magic |-> TRUE,  ctype |-> "application/pdf", readable |-> TRUE,
       pages |-> <<"Python", "SQL">>],
      [magic |-> TRUE,  ctype |-> "application/octet-stream", readable |-> TRUE,
       pages |-> <<>>],
      [magic |-> TRUE,  ctype |-> "application/pdf", readable |-> TRUE,
       pages |-> Unparsable],
      [magic |-> FALSE, ctype |-> "application/pdf", readable |-> TRUE,
       pages |-> Unparsable],
      [magic |-> FALSE, ctype |-> "text/html", readable |-> TRUE,
       pages |-> Unparsable],
      [magic |-> TRUE,  ctype |-> "application/pdf", readable |-> FALSE,
       pages |-> <<"Python", "SQL">>] }
NoBody == [magic |-> FALSE, ctype |-> "", readable |-> FALSE, pages |-> <<>>]
Responses ==
    [status : {200}, body : Bodies] \cup [status : Statuses \ {200}, body : {NoBody}]
NoResponse == [status |-> 0, body |-> NoBody]

\* The strings download_and_parse_cv returns for a failure.
ErrInvalidDrive == <<"ERROR:", "Invalid Google Drive URL format.">>
ErrDownload(msg) == <<"ERROR:", "Download failed.", msg>>
ErrContent == <<"ERROR:", "Failed to read response content.">>
ErrParse == <<"ERROR:", "PDF parsing failed.">>
ErrNotPdf == <<"ERROR:", "Only PDF files are supported">>

\* The endpoints that download a CV, and the test script that calls
\* download_and_parse_cv itself.
Endpoints ==
    {"process_cv_submission", "test_cv_download_and_extract_skills", "test_cv_download"}
ApplicationId == "application_1"
NoReply == [code |-> 0, success |-> FALSE, step |-> ""]

\* No request is being served and none has been.
NoRequest ==
    /\ cpc = "idle"
    /\ endpoint = None
    /\ resume_url = <<>>
    /\ url = <<>>
    /\ original_url = <<>>
    /\ urls_to_try = <<>>
    /\ response = NoResponse
    /\ last_error = None
    /\ cv_text = <<>>
    /\ raised = None
    /\ skills = <<>>
    /\ reply = NoReply
    /\ calls = <<>>
    /\ tried = <<>>
    /\ served = 0

\* The service is not running.
NoService ==
    /\ CLOUDINARY_AVAILABLE = FALSE
    /\ gemini_client = None
    /\ job_cv_collection = [ready |-> FALSE, docs |-> {}]
    /\ NoRequest

EmptyEmb == [n \in {} |-> <<>>]

File(v) == [st |-> Ok, v |-> v]
IsContent(f) == f.st = Ok
\* The file after a failed write: untouched when open() failed, truncated
\* or half written when the dump failed.
FailedWrites(f, empty) == {f, [st |-> Corrupt, v |-> empty]}

\* The arguments of a call and, as history, what held when it was issued:
\* fresh (the node was in neither G nor embeddings), dfresh (the node was in
\* none of the three files), during (a rebuild was building or training).
NoArg == [name |-> <<"", <<>> >>, type |-> "", neighbors |-> <<>>,
          fresh |-> FALSE, dfresh |-> FALSE, during |-> FALSE]
NoPre == [G |-> EmptyGraph, embeddings |-> EmptyEmb,
          fG |-> [st |-> Missing, v |-> EmptyGraph],
          fE |-> [st |-> Missing, v |-> EmptyEmb]]

\* Line 115, every().day.at("01:23"): the job is due once a day, at the
\* first such instant strictly after the clock read when it is (re)scheduled.
TriggerAt == 1
IsTrigger(i) == i % DayLen = TriggerAt
NextTriggerNotStrict(t) ==
    LET today == (t \div DayLen) * DayLen + TriggerAt
    IN  IF today >= t THEN today ELSE today + DayLen
NextTrigger(t) ==
    LET today == (t \div DayLen) * DayLen + TriggerAt
    IN  IF today > t THEN today ELSE today + DayLen

\* The locals of an activation of nightly_retrain outside the scheduler loop.
NoMan == [pc |-> "idle", res |-> "none", jobs |-> <<>>,
          G_new |-> EmptyGraph, new_embeddings |-> EmptyEmb]

\* The ids a call names.
RECURSIVE Range(_)
Range(s) == IF s = <<>> THEN {} ELSE {Head(s)} \cup Range(Tail(s))
CallIds(a) == {a.name} \cup Range(a.neighbors)

\* Lines 10-25 with no file on disk: the empty store and an empty log file.
Init ==
    /\ G = EmptyGraph
    /\ embeddings = EmptyEmb
    /\ fG = [st |-> Missing, v |-> EmptyGraph]
    /\ fE = [st |-> Missing, v |-> EmptyEmb]
    /\ fLog = File(<<>>)
    /\ ipc = [t \in Callers |-> "idle"]
    /\ iarg = [t \in Callers |-> NoArg]
    /\ ilog = [t \in Callers |-> <<>>]
    /\ ires = [t \in Callers |-> "none"]
    /\ rpc = "idle"
    /\ rres = "none"
    /\ jobs = <<>>
    /\ G_new = EmptyGraph
    /\ new_embeddings = EmptyEmb
    /\ now = 0
    /\ next_run = NextTrigger(0)
    /\ man = NoMan
    /\ missed = 0
    /\ NoService
    /\ ops = 0
    /\ faults = 0
    /\ pre = NoPre
    /\ stale = {}

\* ------------------------------------------------------------- insert
\* The exception of a failed statement leaves add_node_with_neighbors.
Leave(t, how) ==
    /\ ipc' = [ipc EXCEPT ![t] = "idle"]
    /\ ires' = [ires EXCEPT ![t] = how]
    /\ ilog' = [ilog EXCEPT ![t] = <<>>]

\* Lines 41-45 with the check after the first mutation of the graph.
InsertInvalidAfterAdd(t) ==
    /\ ipc[t] = "idle"
    /\ ops < MaxOps
    /\ \E name \in CallNames, type \in CallTypes \ NodeTypes :
          /\ iarg' = [iarg EXCEPT ![t] = [NoArg EXCEPT !.type = type]]
          /\ G' = add_node(G, name, [type |-> type])
    /\ ops' = ops + 1
    /\ Leave(t, "ValueError")
    /\ UNCHANGED <<sched, cv>>
    /\ UNCHANGED <<embeddings, fG, fE, fLog, rebuilder, faults, stale>>

\* Lines 41-42: a type outside the three raises ValueError before anything
\* is touched.
InsertInvalid(t) ==
    /\ ipc[t] = "idle"
    /\ ops < MaxOps
    /\ \E name \in CallNames, type \in CallTypes \ NodeTypes, nbrs \in NbrLists :
          iarg' = [iarg EXCEPT ![t] = [NoArg EXCEPT !.type = type]]
    /\ ops' = ops + 1
    /\ Leave(t, "ValueError")
    /\ UNCHANGED <<sched, cv>>
    /\ UNCHANGED <<store, rebuilder, faults, stale>>

\* Lines 41-45: the type is valid; G.add_node(node_name, type=node_type).
InsertAddNode(t) ==
    /\ ipc[t] = "idle"
    /\ ops < MaxOps
    /\ \E name \in CallNames, type \in CallTypes \cap NodeTypes, nbrs \in NbrLists :
          /\ iarg' = [iarg EXCEPT ![t] =
                [name |-> name, type |-> type, neighbors |-> nbrs,
                 fresh |-> name \notin Nodes(G) /\ name \notin DOMAIN embeddings,
                 dfresh |-> /\ name \notin Nodes(fG.v)
                            /\ name \notin DOMAIN fE.v
                            /\ \A k \in 1..Len(fLog.v) : fLog.v[k].node # name,
                 during |-> rpc \in {"build", "train"}]]
          /\ G' = add_node(G, name, [type |-> type])
          /\ stale' = stale \ ({name} \cup Range(nbrs))
    /\ ops' = ops + 1
    /\ ipc' = [ipc EXCEPT ![t] = "neighbors"]
    /\ ires' = [ires EXCEPT ![t] = "none"]
    /\ UNCHANGED <<sched, cv>>
    /\ UNCHANGED <<embeddings, fG, fE, fLog, ilog, rebuilder, faults>>

\* Lines 49-57 without the test of line 49: the neighbor is created anew
\* even when it is in the graph.
AddNeighborAlwaysCreates(g, node_name, n) ==
    LET g1 == IF startswith(n, "job_") THEN add_node(g, n, [type |-> "job"])
              ELSE IF startswith(n, "skill_") THEN add_node(g, n, [type |-> "skill"])
              ELSE IF startswith(n, "company_")
                   THEN add_node(g, n, [type |-> "company"])
                   ELSE g
    IN add_edge(g1, node_name, n, NoAttrs)

\* Lines 49-57 with the edge added only to a neighbor the loop found or
\* created.
AddNeighborSkipsUnknown(g, node_name, n) ==
    LET g1 == IF n \notin Nodes(g)
              THEN IF startswith(n, "job_") THEN add_node(g, n, [type |-> "job"])
                   ELSE IF startswith(n, "skill_") THEN add_node(g, n, [type |-> "skill"])
                   ELSE IF startswith(n, "company_")
                        THEN add_node(g, n, [type |-> "company"])
                        ELSE g
              ELSE g
    IN IF n \in Nodes(g1) THEN add_edge(g1, node_name, n, NoAttrs) ELSE g1

\* Lines 49-57: one pass of the loop body for neighbor n.
AddNeighbor(g, node_name, n) ==
    LET g1 == IF n \notin Nodes(g)
              THEN IF startswith(n, "job_") THEN add_node(g, n, [type |-> "job"])
                   ELSE IF startswith(n, "skill_") THEN add_node(g, n, [type |-> "skill"])
                   ELSE IF startswith(n, "company_")
                        THEN add_node(g, n, [type |-> "company"])
                        ELSE g
              ELSE g
    IN add_edge(g1, node_name, n, NoAttrs)

\* Lines 48-57: the loop over neighbors.
RECURSIVE AddNeighbors(_, _, _)
AddNeighbors(g, node_name, neighbors) ==
    IF neighbors = <<>> THEN g
    ELSE AddNeighbors(AddNeighbor(g, node_name, Head(neighbors)), node_name,
                      Tail(neighbors))

InsertNeighbors(t) ==
    /\ ipc[t] = "neighbors"
    /\ G' = AddNeighbors(G, iarg[t].name, iarg[t].neighbors)
    /\ ipc' = [ipc EXCEPT ![t] = "embed"]
    /\ UNCHANGED <<sched, cv>>
    /\ UNCHANGED <<embeddings, fG, fE, fLog, iarg, ilog, ires, ops,
                   rebuilder, faults, stale>>

\* Line 60: the neighbors that have an embedding, in list order, repeats kept.
valid_neighbors(neighbors, emb) == SelectSeq(neighbors, LAMBDA n : n \in DOMAIN emb)

\* dict item assignment d[k] = v.
SetItem(d, k, v) == [x \in DOMAIN d \cup {k} |-> IF x = k THEN v ELSE d[x]]

\* Lines 60-66 skipped for a node that already has an embedding.
InsertEmbedKeepsStored(t) ==
    /\ ipc[t] = "embed"
    /\ LET vn == valid_neighbors(iarg[t].neighbors, embeddings) IN
       IF iarg[t].name \in DOMAIN embeddings
       THEN embeddings' = embeddings
       ELSE IF vn # <<>>
       THEN embeddings' = SetItem(embeddings, iarg[t].name,
                             MeanVec([k \in 1..Len(vn) |-> embeddings[vn[k]]]))
       ELSE \E d \in ColdDraws :
               embeddings' = SetItem(embeddings, iarg[t].name, ColdVec(d))
    /\ ipc' = [ipc EXCEPT ![t] = "logread"]
    /\ UNCHANGED <<sched, cv>>
    /\ UNCHANGED <<G, fG, fE, fLog, iarg, ilog, ires, ops, rebuilder, faults, stale>>

\* Lines 60-66: the mean of the neighbors' vectors, or a random draw.
InsertEmbed(t) ==
    /\ ipc[t] = "embed"
    /\ LET vn == valid_neighbors(iarg[t].neighbors, embeddings) IN
       IF vn # <<>>
       THEN embeddings' = SetItem(embeddings, iarg[t].name,
                             MeanVec([k \in 1..Len(vn) |-> embeddings[vn[k]]]))
       ELSE \E d \in ColdDraws :
               embeddings' = SetItem(embeddings, iarg[t].name, ColdVec(d))
    /\ ipc' = [ipc EXCEPT ![t] = "logread"]
    /\ UNCHANGED <<sched, cv>>
    /\ UNCHANGED <<G, fG, fE, fLog, iarg, ilog, ires, ops, rebuilder, faults, stale>>

\* Lines 29-30 of log_new_node: read the whole log file into `log`.
InsertLogRead(t) ==
    /\ ipc[t] = "logread"
    /\ IF IsContent(fLog)
       THEN /\ ilog' = [ilog EXCEPT ![t] = fLog.v]
            /\ ipc' = [ipc EXCEPT ![t] = "logwrite"]
            /\ UNCHANGED ires
       ELSE Leave(t, "LogError")
    /\ UNCHANGED <<sched, cv>>
    /\ UNCHANGED <<store, iarg, ops, rebuilder, faults, stale>>

\* Lines 31-33 of log_new_node: append the entry to `log` and write the
\* whole list back.
InsertLogWrite(t) ==
    /\ ipc[t] = "logwrite"
    /\ \/ /\ fLog' = File(Append(ilog[t], [node |-> iarg[t].name, type |-> iarg[t].type]))
          /\ ipc' = [ipc EXCEPT ![t] = "wgraph"]
          /\ ilog' = [ilog EXCEPT ![t] = <<>>]
          /\ UNCHANGED <<ires, faults>>
       \/ /\ faults < MaxFaults
          /\ faults' = faults + 1
          /\ fLog' \in FailedWrites(fLog, <<>>)
          /\ Leave(t, "IOError")
    /\ UNCHANGED <<sched, cv>>
    /\ UNCHANGED <<G, embeddings, fG, fE, iarg, ops, rebuilder, stale>>

\* Line 72: nx.write_gpickle(G, "careerhunt_kg.gpickle").
InsertWriteGraph(t) ==
    /\ ipc[t] = "wgraph"
    /\ \/ /\ fG' = File(G)
          /\ ipc' = [ipc EXCEPT ![t] = "wemb"]
          /\ UNCHANGED <<ires, ilog, faults>>
       \/ /\ faults < MaxFaults
          /\ faults' = faults + 1
          /\ fG' \in FailedWrites(fG, EmptyGraph)
          /\ Leave(t, "IOError")
    /\ UNCHANGED <<sched, cv>>
    /\ UNCHANGED <<G, embeddings, fE, fLog, iarg, ops, rebuilder, stale>>

\* Lines 73-74: json.dump(embeddings) into embeddings.json, then return.
InsertWriteEmb(t) ==
    /\ ipc[t] = "wemb"
    /\ \/ /\ fE' = File(embeddings)
          /\ Leave(t, "ok")
          /\ UNCHANGED faults
       \/ /\ faults < MaxFaults
          /\ faults' = faults + 1
          /\ fE' \in FailedWrites(fE, EmptyEmb)
          /\ Leave(t, "IOError")
    /\ UNCHANGED <<sched, cv>>
    /\ UNCHANGED <<G, embeddings, fG, fLog, iarg, ops, rebuilder, stale>>

\* ------------------------------------------------------------- rebuild
\* An exception in nightly_retrain is caught nowhere: it leaves
\* schedule.run_pending() and the module's while loop (lines 119-121), so the
\* main thread ends and no later rebuild is started by this process.
Abort(how) ==
    /\ rpc' = "dead"
    /\ rres' = how
    /\ faults' = faults + 1

InFlightIds == UNION {CallIds(iarg[t]) : t \in {u \in Callers : ipc[u] # "idle"}}

\* Mutant of RebuildRead: the log file is emptied when the rebuild starts,
\* before the dataset is read.
RebuildReadClearsLog ==
    /\ rpc = "idle"
    /\ ops < MaxOps
    /\ ops' = ops + 1
    /\ stale' = Nodes(G) \ InFlightIds
    /\ fLog' = File(<<>>)
    /\ \/ /\ \E d \in Datasets : jobs' = d
          /\ rpc' = "build"
          /\ rres' = "none"
          /\ UNCHANGED faults
       \/ /\ faults < MaxFaults
          /\ Abort("DatasetReadError")
          /\ UNCHANGED jobs
    /\ UNCHANGED <<sched, cv>>
    /\ UNCHANGED <<G, embeddings, fG, fE, inserter, G_new, new_embeddings, pre>>

\* Lines 78-79: the scheduled job starts and reads jobs.csv.
RebuildRead ==
    /\ rpc = "idle"
    /\ ops < MaxOps
    /\ ops' = ops + 1
    /\ stale' = Nodes(G) \ InFlightIds
    /\ \/ /\ \E d \in Datasets : jobs' = d
          /\ rpc' = "build"
          /\ rres' = "none"
          /\ UNCHANGED faults
       \/ /\ faults < MaxFaults
          /\ Abort("DatasetReadError")
          /\ UNCHANGED jobs
    /\ UNCHANGED <<sched, cv>>
    /\ UNCHANGED <<store, inserter, G_new, new_embeddings, pre>>

\* Lines 81-95: build G_new from the rows.
RebuildBuild ==
    /\ rpc = "build"
    /\ IF BuildFails(jobs)
       THEN /\ rpc' = "dead"
            /\ rres' = "BuildError"
            /\ UNCHANGED G_new
       ELSE /\ G_new' = BuildGraph(EmptyGraph, jobs)
            /\ rpc' = "train"
            /\ UNCHANGED rres
    /\ UNCHANGED <<sched, cv>>
    /\ UNCHANGED <<store, inserter, jobs, new_embeddings, ops, faults, pre, stale>>

\* Lines 97-99: Node2Vec walks and fit, then one vector per node. The fit
\* raises on a graph without nodes (no walk, no vocabulary).
RebuildTrain ==
    /\ rpc = "train"
    /\ \/ /\ Nodes(G_new) # {}
          /\ \E seed \in TrainSeeds : new_embeddings' = TrainedEmbeddings(G_new, seed)
          /\ rpc' = "wgraph"
          /\ pre' = [G |-> G, embeddings |-> embeddings, fG |-> fG, fE |-> fE]
          /\ UNCHANGED <<rres, faults>>
       \/ /\ Nodes(G_new) = {}
          /\ rpc' = "dead"
          /\ rres' = "TrainingError"
          /\ UNCHANGED <<new_embeddings, faults, pre>>
       \/ /\ faults < MaxFaults
          /\ Abort("TrainingError")
          /\ UNCHANGED <<new_embeddings, pre>>
    /\ UNCHANGED <<sched, cv>>
    /\ UNCHANGED <<store, inserter, jobs, G_new, ops, stale>>

\* Line 101: nx.write_gpickle(G_new, "careerhunt_kg.gpickle").
RebuildWriteGraph ==
    /\ rpc = "wgraph"
    /\ \/ /\ fG' = File(G_new)
          /\ rpc' = "wemb"
          /\ UNCHANGED <<rres, faults>>
       \/ /\ faults < MaxFaults
          /\ fG' \in FailedWrites(fG, EmptyGraph)
          /\ Abort("IOError")
    /\ UNCHANGED <<sched, cv>>
    /\ UNCHANGED <<G, embeddings, fE, fLog, inserter, jobs, G_new, new_embeddings,
                   ops, pre, stale>>

\* Lines 102-103: json.dump(new_embeddings) into embeddings.json.
RebuildWriteEmb ==
    /\ rpc = "wemb"
    /\ \/ /\ fE' = File(new_embeddings)
          /\ rpc' = "swapG"
          /\ UNCHANGED <<rres, faults>>
       \/ /\ faults < MaxFaults
          /\ fE' \in FailedWrites(fE, EmptyEmb)
          /\ Abort("IOError")
    /\ UNCHANGED <<sched, cv>>
    /\ UNCHANGED <<G, embeddings, fG, fLog, inserter, jobs, G_new, new_embeddings,
                   ops, pre, stale>>

\* Line 107, `G, embeddings = G_new, new_embeddings`: two stores to globals,
\* first G ...
RebuildSwapG ==
    /\ rpc = "swapG"
    /\ G' = G_new
    /\ rpc' = "swapE"
    /\ UNCHANGED <<sched, cv>>
    /\ UNCHANGED <<embeddings, fG, fE, fLog, inserter, rres, jobs, G_new,
                   new_embeddings, ops, faults, pre, stale>>

\* Mutant of RebuildSwapEmb: the fresh vectors are merged into the old dict
\* (embeddings.update(new_embeddings)) instead of replacing it.
RebuildSwapEmbMerges ==
    /\ rpc = "swapE"
    /\ embeddings' = Update(embeddings, new_embeddings)
    /\ rpc' = "clear"
    /\ UNCHANGED <<sched, cv>>
    /\ UNCHANGED <<G, fG, fE, fLog, inserter, rres, jobs, G_new,
                   new_embeddings, ops, faults, pre, stale>>

\* ... then embeddings.
RebuildSwapEmb ==
    /\ rpc = "swapE"
    /\ embeddings' = new_embeddings
    /\ rpc' = "clear"
    /\ UNCHANGED <<sched, cv>>
    /\ UNCHANGED <<G, fG, fE, fLog, inserter, rres, jobs, G_new,
                   new_embeddings, ops, faults, pre, stale>>

\* Lines 110-111: overwrite the log file with the empty list.
RebuildClearLog ==
    /\ rpc = "clear"
    /\ \/ /\ fLog' = File(<<>>)
          /\ rpc' = "done"
          /\ rres' = "ok"
          /\ UNCHANGED faults
       \/ /\ faults < MaxFaults
          /\ fLog' \in FailedWrites(fLog, <<>>)
          /\ Abort("IOError")
    /\ UNCHANGED <<sched, cv>>
    /\ UNCHANGED <<G, embeddings, fG, fE, inserter, jobs, G_new, new_embeddings,
                   ops, pre, stale>>

\* Line 113: nightly_retrain returns to the scheduler loop.
RebuildReturn ==
    /\ rpc = "done"
    /\ rpc' = "idle"
    /\ jobs' = <<>>
    /\ G_new' = EmptyGraph
    /\ new_embeddings' = EmptyEmb
    /\ pre' = NoPre
    /\ stale' = {}
    /\ next_run' = NextTrigger(now)
    /\ UNCHANGED <<store, inserter, rres, ops, faults, now, man, missed, cv>>

\* Lines 11-15 with one try block per file.
LoadSeparately(g, e) ==
    [G |-> IF IsContent(g) THEN g.v ELSE EmptyGraph,
     embeddings |-> IF IsContent(e) THEN e.v ELSE EmptyEmb]
\* Lines 11-19: both files are read in one try block; when either read
\* raises, the bare except binds the empty graph and the empty dict.
Load(g, e) ==
    IF IsContent(g) /\ IsContent(e)
    THEN [G |-> g.v, embeddings |-> e.v]
    ELSE [G |-> EmptyGraph, embeddings |-> EmptyEmb]

\* ------------------------------------------------------------- restart
\* The process ends at any point (crash, kill, or exit after the main thread
\* died) and is started again: lines 10-25. The graph and the embeddings
\* are loaded together or, when either file cannot be read, both start
\* empty; the log file is created only when it does not exist.
Restart ==
    /\ G' = Load(fG, fE).G
    /\ embeddings' = Load(fG, fE).embeddings
    /\ fLog' = IF fLog.st = Missing THEN File(<<>>) ELSE fLog
    /\ ipc' = [t \in Callers |-> "idle"]
    /\ iarg' = [t \in Callers |-> NoArg]
    /\ ilog' = [t \in Callers |-> <<>>]
    /\ ires' = [t \in Callers |-> "none"]
    /\ rpc' = "idle"
    /\ rres' = "none"
    /\ jobs' = <<>>
    /\ G_new' = EmptyGraph
    /\ new_embeddings' = EmptyEmb
    /\ pre' = NoPre
    /\ stale' = {}
    /\ next_run' = NextTrigger(now)
    /\ man' = NoMan
    /\ UNCHANGED <<fG, fE, ops, faults, now, missed, cv>>

\* ------------------------------------------------------------- system
Insert(t) ==
    \/ InsertInvalid(t)
    \/ InsertAddNode(t)
    \/ InsertNeighbors(t)
    \/ InsertEmbed(t)
    \/ InsertLogRead(t)
    \/ InsertLogWrite(t)
    \/ InsertWriteGraph(t)
    \/ InsertWriteEmb(t)

Rebuild ==
    \/ RebuildRead
    \/ RebuildBuild
    \/ RebuildTrain
    \/ RebuildWriteGraph
    \/ RebuildWriteEmb
    \/ RebuildSwapG
    \/ RebuildSwapEmb
    \/ RebuildClearLog
    \/ RebuildReturn

Next ==
    \/ \E t \in Callers : Insert(t)
    \/ Rebuild
    \/ Restart

Spec == Init /\ [][Next]_vars

\* ------------------------------------------------------------- scheduler
\* Lines 119-121, `while True: schedule.run_pending(); time.sleep(60)`: one
\* pass of the loop takes one unit of time. run_pending runs the job on the
\* loop's own thread when it is due, so the loop only sleeps again when no
\* job is due. While nightly_retrain runs, and once an exception has ended
\* the loop, time goes on with no pass of the loop.
Tick ==
    /\ now < MaxTime
    /\ ~(rpc = "idle" /\ now >= next_run)
    /\ now' = now + 1
    /\ missed' = IF IsTrigger(now + 1) /\ rpc # "idle" THEN missed + 1 ELSE missed
    /\ UNCHANGED <<store, inserter, rebuilder, ops, faults, stale, next_run, man, cv>>

\* Line 120, run_pending with the job due: the loop calls nightly_retrain.
SchedRunPending ==
    /\ now >= next_run
    /\ RebuildRead

\* nightly_retrain called from a thread other than the scheduler loop's: the
\* same statements on its own locals; an exception ends that thread only.
ManFail(how) == man' = [NoMan EXCEPT !.res = how]

\* Lines 78-79 of the second activation.
ManualRead ==
    /\ man.pc = "idle"
    /\ ops < MaxOps
    /\ ops' = ops + 1
    /\ \/ /\ \E d \in Datasets : man' = [NoMan EXCEPT !.pc = "build", !.jobs = d]
          /\ UNCHANGED faults
       \/ /\ faults < MaxFaults
          /\ faults' = faults + 1
          /\ ManFail("DatasetReadError")
    /\ UNCHANGED <<store, inserter, rebuilder, stale, now, next_run, missed, cv>>

\* Lines 81-93 of the second activation.
ManualBuild ==
    /\ man.pc = "build"
    /\ IF BuildFails(man.jobs)
       THEN ManFail("BuildError")
       ELSE man' = [man EXCEPT !.pc = "train",
                               !.G_new = BuildGraph(EmptyGraph, man.jobs)]
    /\ UNCHANGED <<store, inserter, rebuilder, ops, faults, stale, now, next_run, missed, cv>>

\* Lines 97-99 of the second activation.
ManualTrain ==
    /\ man.pc = "train"
    /\ \/ /\ Nodes(man.G_new) # {}
          /\ \E seed \in TrainSeeds :
                man' = [man EXCEPT !.pc = "wgraph",
                          !.new_embeddings = TrainedEmbeddings(man.G_new, seed)]
          /\ UNCHANGED faults
       \/ /\ Nodes(man.G_new) = {}
          /\ ManFail("TrainingError")
          /\ UNCHANGED faults
       \/ /\ faults < MaxFaults
          /\ faults' = faults + 1
          /\ ManFail("TrainingError")
    /\ UNCHANGED <<store, inserter, rebuilder, ops, stale, now, next_run, missed, cv>>

\* Line 101 of the second activation.
ManualWriteGraph ==
    /\ man.pc = "wgraph"
    /\ \/ /\ fG' = File(man.G_new)
          /\ man' = [man EXCEPT !.pc = "wemb"]
          /\ UNCHANGED faults
       \/ /\ faults < MaxFaults
          /\ faults' = faults + 1
          /\ fG' \in FailedWrites(fG, EmptyGraph)
          /\ ManFail("IOError")
    /\ UNCHANGED <<G, embeddings, fE, fLog, inserter, rebuilder, ops, stale,
                   now, next_run, missed, cv>>

\* Lines 102-103 of the second activation.
ManualWriteEmb ==
    /\ man.pc = "wemb"
    /\ \/ /\ fE' = File(man.new_embeddings)
          /\ man' = [man EXCEPT !.pc = "swapG"]
          /\ UNCHANGED faults
       \/ /\ faults < MaxFaults
          /\ faults' = faults + 1
          /\ fE' \in FailedWrites(fE, EmptyEmb)
          /\ ManFail("IOError")
    /\ UNCHANGED <<G, embeddings, fG, fLog, inserter, rebuilder, ops, stale,
                   now, next_run, missed, cv>>

\* Line 107 of the second activation, the store to G.
ManualSwapG ==
    /\ man.pc = "swapG"
    /\ G' = man.G_new
    /\ man' = [man EXCEPT !.pc = "swapE"]
    /\ UNCHANGED <<embeddings, fG, fE, fLog, inserter, rebuilder, ops, faults,
                   stale, now, next_run, missed, cv>>

\* Line 107 of the second activation, the store to embeddings.
ManualSwapEmb ==
    /\ man.pc = "swapE"
    /\ embeddings' = man.new_embeddings
    /\ man' = [man EXCEPT !.pc = "clear"]
    /\ UNCHANGED <<G, fG, fE, fLog, inserter, rebuilder, ops, faults,
                   stale, now, next_run, missed, cv>>

\* Lines 110-113 of the second activation: the log is cleared and the call
\* returns to its thread.
ManualClearLog ==
    /\ man.pc = "clear"
    /\ \/ /\ fLog' = File(<<>>)
          /\ man' = [NoMan EXCEPT !.res = "ok"]
          /\ UNCHANGED faults
       \/ /\ faults < MaxFaults
          /\ faults' = faults + 1
          /\ fLog' \in FailedWrites(fLog, <<>>)
          /\ ManFail("IOError")
    /\ UNCHANGED <<G, embeddings, fG, fE, inserter, rebuilder, ops, stale,
                   now, next_run, missed, cv>>

Manual ==
    \/ ManualRead
    \/ ManualBuild
    \/ ManualTrain
    \/ ManualWriteGraph
    \/ ManualWriteEmb
    \/ ManualSwapG
    \/ ManualSwapEmb
    \/ ManualClearLog

\* The scheduler loop with the clock: the job starts only when it is due.
NextSched ==
    \/ Tick
    \/ SchedRunPending
    \/ RebuildBuild
    \/ RebuildTrain
    \/ RebuildWriteGraph
    \/ RebuildWriteEmb
    \/ RebuildSwapG
    \/ RebuildSwapEmb
    \/ RebuildClearLog
    \/ RebuildReturn
    \/ Restart

SchedSpec == Init /\ [][NextSched]_vars

\* The scheduler loop and a thread that calls nightly_retrain itself.
NextManual ==
    \/ NextSched
    \/ Manual

ManualSpec == Init /\ [][NextManual]_vars

\* ------------------------------------------------------------- one thread
\* The store of a process started on the files an earlier run left: nothing,
\* or the graph and the embeddings a nightly_retrain wrote.
StartStores ==
    {[G |-> EmptyGraph, embeddings |-> EmptyEmb,
      fG |-> [st |-> Missing, v |-> EmptyGraph],
      fE |-> [st |-> Missing, v |-> EmptyEmb]]}
    \cup
    {[G |-> BuildGraph(EmptyGraph, d),
      embeddings |-> TrainedEmbeddings(BuildGraph(EmptyGraph, d), seed),
      fG |-> File(BuildGraph(EmptyGraph, d)),
      fE |-> File(TrainedEmbeddings(BuildGraph(EmptyGraph, d), seed))] :
        d \in {x \in Datasets : ~BuildFails(x) /\ x # <<>>}, seed \in TrainSeeds}

InitSeq ==
    /\ \E s \in StartStores :
          /\ G = s.G
          /\ embeddings = s.embeddings
          /\ fG = s.fG
          /\ fE = s.fE
    /\ fLog = File(<<>>)
    /\ ipc = [t \in Callers |-> "idle"]
    /\ iarg = [t \in Callers |-> NoArg]
    /\ ilog = [t \in Callers |-> <<>>]
    /\ ires = [t \in Callers |-> "none"]
    /\ rpc = "idle"
    /\ rres = "none"
    /\ jobs = <<>>
    /\ G_new = EmptyGraph
    /\ new_embeddings = EmptyEmb
    /\ now = 0
    /\ next_run = NextTrigger(0)
    /\ man = NoMan
    /\ missed = 0
    /\ NoService
    /\ ops = 0
    /\ faults = 0
    /\ pre = NoPre
    /\ stale = {}

\* One caller and the rebuild, one operation at a time: a call runs from its
\* first statement to its return before the next operation starts.
NoRebuildRunning == rpc \in {"idle", "dead"}
NoInsertRunning == ipc["t1"] = "idle"
NextSeq ==
    \/ NoRebuildRunning /\ InsertInvalid("t1")
    \/ NoRebuildRunning /\ InsertAddNode("t1")
    \/ NoRebuildRunning /\ InsertNeighbors("t1")
    \/ NoRebuildRunning /\ InsertEmbed("t1")
    \/ NoRebuildRunning /\ InsertLogRead("t1")
    \/ NoRebuildRunning /\ InsertLogWrite("t1")
    \/ NoRebuildRunning /\ InsertWriteGraph("t1")
    \/ NoRebuildRunning /\ InsertWriteEmb("t1")
    \/ NoInsertRunning /\ RebuildRead
    \/ NoInsertRunning /\ RebuildBuild
    \/ NoInsertRunning /\ RebuildTrain
    \/ NoInsertRunning /\ RebuildWriteGraph
    \/ NoInsertRunning /\ RebuildWriteEmb
    \/ NoInsertRunning /\ RebuildSwapG
    \/ NoInsertRunning /\ RebuildSwapEmb
    \/ NoInsertRunning /\ RebuildClearLog
    \/ NoInsertRunning /\ RebuildReturn
    \/ Restart

SeqSpec == InitSeq /\ [][NextSeq]_vars

\* ------------------------------------------------------------- the build
\* nightly_retrain alone, past line 79, on more contents of jobs.csv: a job
\* id on two rows, two companies, a cell that ends in a comma.
BuildInputs ==
    Datasets \cup
    { << Row(<<"1">>, "dev", <<"a">>, <<"g">>),
         Row(<<"1">>, "ops", <<"b">>, <<"r">>) >>,
      << Row(<<"1">>, "dev", <<"a">>, <<"g">>),
         Row(<<"3">>, "ops", <<"b">>, <<" ", "g", " ", ",", "r">>) >>,
      << Row(<<"1">>, "dev", <<"a">>, <<"g", ",">>) >> }

InitBuild ==
    /\ G = EmptyGraph
    /\ embeddings = EmptyEmb
    /\ fG = [st |-> Missing, v |-> EmptyGraph]
    /\ fE = [st |-> Missing, v |-> EmptyEmb]
    /\ fLog = File(<<>>)
    /\ ipc = [t \in Callers |-> "idle"]
    /\ iarg = [t \in Callers |-> NoArg]
    /\ ilog = [t \in Callers |-> <<>>]
    /\ ires = [t \in Callers |-> "none"]
    /\ rpc = "build"
    /\ rres = "none"
    /\ jobs \in BuildInputs
    /\ G_new = EmptyGraph
    /\ new_embeddings = EmptyEmb
    /\ now = 0
    /\ next_run = NextTrigger(0)
    /\ man = NoMan
    /\ missed = 0
    /\ NoService
    /\ ops = 1
    /\ faults = 0
    /\ pre = NoPre
    /\ stale = {}

BuildSpec == InitBuild /\ [][Rebuild]_vars

\* ------------------------------------------------------------- one call
\* add_node_with_neighbors alone, past line 45 of its first call, on more
\* neighbor lists: an id listed twice beside another id.
CallInputs ==
    NbrLists \cup
    { << SkillId(<<"g">>), SkillId(<<"g">>), CompanyId(<<"a">>) >>,
      << SkillId(<<"g">>), CompanyId(<<"a">>), SkillId(<<"g">>) >> }

InitCall ==
    /\ \E s \in StartStores, name \in CallNames, type \in CallTypes \cap NodeTypes,
          nbrs \in CallInputs :
          /\ G = add_node(s.G, name, [type |-> type])
          /\ embeddings = s.embeddings
          /\ fG = s.fG
          /\ fE = s.fE
          /\ iarg = [t \in Callers |->
                IF t = "t1"
                THEN [name |-> name, type |-> type, neighbors |-> nbrs,
                      fresh |-> name \notin Nodes(s.G) /\ name \notin DOMAIN s.embeddings,
                      dfresh |-> name \notin Nodes(s.fG.v) /\ name \notin DOMAIN s.fE.v,
                      during |-> FALSE]
                ELSE NoArg]
    /\ fLog = File(<<>>)
    /\ ipc = [t \in Callers |-> IF t = "t1" THEN "neighbors" ELSE "idle"]
    /\ ilog = [t \in Callers |-> <<>>]
    /\ ires = [t \in Callers |-> "none"]
    /\ rpc = "idle"
    /\ rres = "none"
    /\ jobs = <<>>
    /\ G_new = EmptyGraph
    /\ new_embeddings = EmptyEmb
    /\ now = 0
    /\ next_run = NextTrigger(0)
    /\ man = NoMan
    /\ missed = 0
    /\ NoService
    /\ ops = 1
    /\ faults = 0
    /\ pre = NoPre
    /\ stale = {}

CallSpec == InitCall /\ [][Insert("t1")]_vars

\* ------------------------------------------------------ main.py: requests
kg == <<store, inserter, rebuilder, ops, faults, stale, sched>>

\* The handler is entered and calls download_and_parse_cv (lines 774, 869,
\* 832 and line 42 of test_cv_download.py).
Receive(e, u) ==
    /\ cpc \in {"idle", "replied"}
    /\ served < MaxRequests
    /\ endpoint' = e
    /\ resume_url' = u
    /\ url' = u
    /\ original_url' = <<>>
    /\ urls_to_try' = <<>>
    /\ response' = NoResponse
    /\ last_error' = None
    /\ tried' = <<>>
    /\ cv_text' = <<>>
    /\ raised' = None
    /\ skills' = <<>>
    /\ reply' = NoReply
    /\ calls' = <<"download_and_parse_cv">>
    /\ cpc' = "drive"
    /\ UNCHANGED <<service, served, kg>>

\* Lines 195-213: a Google Drive link becomes a direct download link, or
\* the function returns an error when it holds no file id.
ConvertDrive ==
    /\ cpc = "drive"
    /\ IF Contains(url, "drive.google.com")
       THEN IF FileId(url) # <<>>
            THEN /\ url' = DriveDownloadUrl(FileId(url))
                 /\ cpc' = "cloudinary"
                 /\ UNCHANGED cv_text
            ELSE /\ cv_text' = ErrInvalidDrive
                 /\ cpc' = "returned"
                 /\ UNCHANGED url
       ELSE /\ cpc' = "cloudinary"
            /\ UNCHANGED <<url, cv_text>>
    /\ UNCHANGED <<service, original_url, urls_to_try, response, last_error, tried,
                   endpoint, resume_url, raised, skills, reply, calls, served, kg>>

\* Lines 216-369: with the SDK there, a Cloudinary link is first fetched by
\* a signed URL; that returns the text of the PDF, or, every exception being
\* caught at lines 366 and 368, goes on to the direct download.
CloudinaryApi ==
    /\ cpc = "cloudinary"
    /\ original_url' = url
    /\ \/ /\ Contains(url, "cloudinary.com") /\ ContainsUpload(url)
          /\ CLOUDINARY_AVAILABLE
          /\ \E text \in Texts : cv_text' = text
          /\ cpc' = "returned"
       \/ /\ cpc' = "candidates"
          /\ UNCHANGED cv_text
    /\ UNCHANGED <<service, url, urls_to_try, response, last_error, tried,
                   endpoint, resume_url, raised, skills, reply, calls, served, kg>>

\* Lines 371-398.
Candidates ==
    /\ cpc = "candidates"
    /\ urls_to_try' = UrlsToTry(url, original_url)
    /\ response' = NoResponse
    /\ last_error' = None
    /\ cpc' = "attempt"
    /\ UNCHANGED <<service, url, original_url, tried,
                   endpoint, resume_url, cv_text, raised, skills, reply, calls,
                   served, kg>>

\* Line 436 catching less: connection errors only.
CaughtConnectionOnly(e) == e = "ConnectionError"

\* Line 436: `except requests.exceptions.RequestException`.
Caught(e) == e \in RequestExceptions

\* Lines 400-440, one pass of the loop: the request, then break on 200,
\* continue on 401, raise_for_status on any other status, and continue
\* from the except clause.
Attempt ==
    /\ cpc = "attempt"
    /\ LET attempt_url == urls_to_try[Len(tried) + 1]
           more == IF Len(tried) + 1 < Len(urls_to_try) THEN "attempt" ELSE "after"
           Except(e) ==
               IF Caught(e)
               THEN /\ last_error' = e
                    /\ response' = NoResponse
                    /\ cpc' = more
                    /\ UNCHANGED raised
               ELSE /\ raised' = e
                    /\ cpc' = "returned"
                    /\ UNCHANGED <<last_error, response>>
       IN  \/ \E r \in Responses :
                /\ tried' = Append(tried, [url |-> RequestUrl(attempt_url),
                                           status |-> r.status, body |-> r.body])
                /\ IF r.status = 200
                   THEN /\ response' = r
                        /\ cpc' = "after"
                        /\ UNCHANGED <<last_error, raised>>
                   ELSE IF r.status = 401
                   THEN /\ response' = NoResponse
                        /\ cpc' = more
                        /\ UNCHANGED <<last_error, raised>>
                   ELSE IF r.status >= 400
                   THEN Except("HTTPError")
                   ELSE /\ response' = r
                        /\ cpc' = more
                        /\ UNCHANGED <<last_error, raised>>
           \/ /\ tried' = Append(tried, [url |-> RequestUrl(attempt_url),
                                         status |-> 0, body |-> NoBody])
              /\ Except("ConnectionError")
    /\ UNCHANGED <<service, url, original_url, urls_to_try,
                   endpoint, resume_url, cv_text, skills, reply, calls, served, kg>>

\* Lines 442-452: no response with status 200, or its content cannot be read.
AfterLoop ==
    /\ cpc = "after"
    /\ IF response.status # 200
       THEN /\ cv_text' = ErrDownload(IF last_error # None THEN last_error
                                      ELSE "All URL formats failed")
            /\ cpc' = "returned"
       ELSE IF ~response.body.readable
       THEN /\ cv_text' = ErrContent
            /\ cpc' = "returned"
       ELSE /\ cpc' = "verify"
            /\ UNCHANGED cv_text
    /\ UNCHANGED <<service, download, endpoint, resume_url, raised, skills, reply,
                   calls, served, kg>>

\* Lines 454-510: a PDF by its first bytes, its Content-Type or the URL's
\* extension is parsed; anything else is refused.
Verify ==
    /\ cpc = "verify"
    /\ LET content == response.body
           is_pdf == \/ content.magic
                     \/ content.ctype = "application/pdf"
                     \/ EndsWith(Lower(original_url), ".pdf")
       IN  cv_text' = IF ~is_pdf THEN ErrNotPdf
                      ELSE IF content.pages = Unparsable THEN ErrParse
                      ELSE content.pages
    /\ cpc' = "returned"
    /\ UNCHANGED <<service, download, endpoint, resume_url, raised, skills, reply,
                   calls, served, kg>>

Answer(r) == reply' = r /\ cpc' = "replied" /\ served' = served + 1
ServerError == [code |-> 500, success |-> FALSE, step |-> ""]
Failure(step) == [code |-> 200, success |-> FALSE, step |-> step]
Success == [code |-> 200, success |-> TRUE, step |-> ""]

\* What extract_skills_and_link_kg returns with a client (lines 520-604):
\* nothing for an empty text, else what Gemini lists, or nothing on an error.
ExtractedSkills(text) == IF text = <<>> THEN { <<>> } ELSE { <<>>, <<"Python">> }

\* collection.upsert: the document of the id is replaced.
Upsert(docs, id, document, meta) ==
    {d \in docs : d.id # id} \cup {[id |-> id, document |-> document, skills |-> meta]}

\* Lines 774-775 and 783-785 of process_cv_submission: the text goes to
\* extract_skills_and_link_kg as it came back.
SubmissionExtract ==
    /\ cpc = "returned"
    /\ endpoint = "process_cv_submission"
    /\ IF raised # None
       THEN /\ Answer(ServerError)
            /\ UNCHANGED <<calls, skills>>
       ELSE /\ calls' = Append(calls, "extract_skills_and_link_kg")
            /\ IF gemini_client = None
               THEN /\ Answer(ServerError)
                    /\ UNCHANGED skills
               ELSE /\ \E s \in ExtractedSkills(cv_text) : skills' = s
                    /\ cpc' = "save"
                    /\ UNCHANGED <<reply, served>>
    /\ UNCHANGED <<service, download, endpoint, resume_url, cv_text, raised, kg>>

\* Lines 777-785 of process_cv_submission with save_to_vector_store (lines
\* 606-636): the document is stored under the application id, or the
\* exception of the store answers 500.
SubmissionSave ==
    /\ cpc = "save"
    /\ calls' = Append(calls, "save_to_vector_store")
    /\ IF ~job_cv_collection.ready
       THEN /\ Answer(ServerError)
            /\ UNCHANGED job_cv_collection
       ELSE \/ /\ job_cv_collection' =
                     [job_cv_collection EXCEPT
                         !.docs = Upsert(@, ApplicationId, cv_text, skills)]
               /\ Answer(Success)
            \/ /\ Answer(ServerError)
               /\ UNCHANGED job_cv_collection
    /\ UNCHANGED <<CLOUDINARY_AVAILABLE, gemini_client, download, endpoint,
                   resume_url, cv_text, raised, skills, kg>>

\* Lines 866-920 of test_cv_download_and_extract_skills: an error string
\* ends the request before the extraction.
TestExtract ==
    /\ cpc = "returned"
    /\ endpoint = "test_cv_download_and_extract_skills"
    /\ IF raised # None
       THEN /\ Answer(Failure("unknown"))
            /\ UNCHANGED <<calls, skills>>
       ELSE IF StartsWith(cv_text, "ERROR:")
       THEN /\ Answer(Failure("download"))
            /\ UNCHANGED <<calls, skills>>
       ELSE /\ calls' = Append(calls, "extract_skills_and_link_kg")
            /\ IF gemini_client = None
               THEN /\ Answer(Failure("skill_extraction"))
                    /\ UNCHANGED skills
               ELSE /\ \E s \in ExtractedSkills(cv_text) : skills' = s
                    /\ Answer(Success)
    /\ UNCHANGED <<service, download, endpoint, resume_url, cv_text, raised, kg>>

\* Lines 831-854 of test_cv_download, and lines 41-62 of test_cv_download.py.
TestDownload ==
    /\ cpc = "returned"
    /\ endpoint = "test_cv_download"
    /\ IF raised # None \/ StartsWith(cv_text, "ERROR:")
       THEN Answer(Failure(""))
       ELSE Answer(Success)
    /\ UNCHANGED <<service, download, endpoint, resume_url, cv_text, raised,
                   skills, calls, kg>>

download_and_parse_cv ==
    \/ ConvertDrive
    \/ CloudinaryApi
    \/ Candidates
    \/ Attempt
    \/ AfterLoop
    \/ Verify

NextCv ==
    \/ \E e \in Endpoints, u \in CvUrls : Receive(e, u)
    \/ download_and_parse_cv
    \/ SubmissionExtract
    \/ SubmissionSave
    \/ TestExtract
    \/ TestDownload

\* Lines 117-167, the startup: an exception leaves the globals it has not
\* reached at None, and the collection is made before the Gemini client.
Started ==
    /\ CLOUDINARY_AVAILABLE \in BOOLEAN
    /\ \E ready, client \in BOOLEAN :
          /\ client => ready
          /\ job_cv_collection = [ready |-> ready, docs |-> {}]
          /\ gemini_client = IF client THEN "genai.Client" ELSE None

InitCv ==
    /\ G = EmptyGraph
    /\ embeddings = EmptyEmb
    /\ fG = [st |-> Missing, v |-> EmptyGraph]
    /\ fE = [st |-> Missing, v |-> EmptyEmb]
    /\ fLog = File(<<>>)
    /\ ipc = [t \in Callers |-> "idle"]
    /\ iarg = [t \in Callers |-> NoArg]
    /\ ilog = [t \in Callers |-> <<>>]
    /\ ires = [t \in Callers |-> "none"]
    /\ rpc = "idle"
    /\ rres = "none"
    /\ jobs = <<>>
    /\ G_new = EmptyGraph
    /\ new_embeddings = EmptyEmb
    /\ ops = 0
    /\ faults = 0
    /\ pre = NoPre
    /\ stale = {}
    /\ now = 0
    /\ next_run = NextTrigger(0)
    /\ man = NoMan
    /\ missed = 0
    /\ Started
    /\ NoRequest

CvSpec == InitCv /\ [][NextCv]_vars

RebuildErrors == {"DatasetReadError", "BuildError", "TrainingError", "IOError"}
RebuildRunning == rpc \notin {"idle", "dead"}
ManualRunning == man.pc # "idle"

\* ------------------------------------------------------------- lookups
\* What a reader of the store finds for an id: `id in G`, `id in embeddings`.
HasNode(id) == id \in Nodes(G)
HasEmbedding(id) == id \in DOMAIN embeddings

\* What a restart would find in the files for an id.
InGraphFile(id) == IsContent(fG) /\ id \in Nodes(fG.v)
InEmbFile(id) == IsContent(fE) /\ id \in DOMAIN fE.v
InLogFile(id, type) ==
    IsContent(fLog) /\ \E k \in 1..Len(fLog.v) : fLog.v[k] = [node |-> id, type |-> type]

InsertErrors == {"LogError", "IOError"}

\* No operation is running and none has failed since the last start.
Quiescent ==
    /\ \A t \in Callers : ipc[t] = "idle" /\ ires[t] \in {"none", "ok"}
    /\ rpc = "idle"
    /\ rres \in {"none", "ok"}

\* ------------------------------------------------------------- claims

\* C1: after any sequence of successful inserts and rebuilds, every node of
\* the graph, neighbors created on the fly included, has an embedding entry,
\* and that entry is a vector of EmbDim components.
C1_EveryNodeEmbedded ==
    Quiescent =>
        \A n \in Nodes(G) : HasEmbedding(n) /\ Len(embeddings[n]) = EmbDim

\* C2: at every point of an insert of a node that no file held before, the
\* three files hold the node, its embedding and its log entry all together
\* or none of them (so that a crash at that point finds all or nothing).
C2_InsertDurablyAtomic ==
    \A t \in Callers :
        (ipc[t] # "idle" /\ iarg[t].dfresh) =>
            /\ InGraphFile(iarg[t].name) <=> InEmbFile(iarg[t].name)
            /\ InGraphFile(iarg[t].name) <=> InLogFile(iarg[t].name, iarg[t].type)

\* C3: when a write fails during the insert of a node that was absent before
\* the call, the call ends with an error and the node is in neither the graph
\* nor the embeddings afterwards.
C3_FailedInsertRolledBack ==
    [][\A t \in Callers :
          (ipc[t] # "idle" /\ ipc'[t] = "idle" /\ ires'[t] \in InsertErrors
              /\ iarg[t].fresh)
          => (iarg[t].name \notin Nodes(G') /\ iarg[t].name \notin DOMAIN embeddings')
      ]_vars

\* C4: in every state, crash points between two file writes included, the
\* embeddings file has an entry for every node of the graph file.
C4_PersistedSnapshotConsistent ==
    IsContent(fG) => (IsContent(fE) /\ Nodes(fG.v) \subseteq DOMAIN fE.v)

\* The call of caller t is applied everywhere: graph, embeddings, the three
\* files.
Applied(t) ==
    /\ HasNode(iarg[t].name)
    /\ HasEmbedding(iarg[t].name)
    /\ \A n \in Range(iarg[t].neighbors) : {iarg[t].name, n} \in Edges(G)
    /\ InGraphFile(iarg[t].name)
    /\ InEmbFile(iarg[t].name)
    /\ InLogFile(iarg[t].name, iarg[t].type)

\* C5: when a rebuild ends with success, every node that was in the graph
\* before the rebuild, is not in the dataset and is not named by a call
\* issued or still running since the rebuild began, is absent from the graph
\* and from the embeddings, and the log file holds the empty list.
C5_RebuildDropsStaleNodes ==
    [][(rpc = "clear" /\ rpc' = "done") =>
          /\ \A n \in stale \ Nodes(G_new) :
                n \notin Nodes(G') /\ n \notin DOMAIN embeddings'
          /\ fLog' = File(<<>>)
      ]_vars

\* C5 witness: a rebuild has ended with success and dropped the node of an
\* insert that had returned success before the rebuild began.
C5_Witness ==
    /\ rpc = "done"
    /\ rres = "ok"
    /\ fLog = File(<<>>)
    /\ \E t \in Callers :
          /\ ipc[t] = "idle" /\ ires[t] = "ok"
          /\ iarg[t].name \in stale \ Nodes(G_new)
          /\ ~HasNode(iarg[t].name)

ReplacePcs == {"wgraph", "wemb", "swapG", "swapE"}

\* C6: when the replace step of a rebuild (the two file writes and the swap)
\* ends, by success or by a failed write, the graph file, the embeddings
\* file, G and embeddings are all four the pre-rebuild ones or all four the
\* freshly built ones.
C6_ReplaceIsAtomic ==
    [][(rpc \in ReplacePcs /\ rpc' \in {"clear", "dead"}) =>
          \/ /\ G' = pre.G
             /\ embeddings' = pre.embeddings
             /\ fG' = pre.fG
             /\ fE' = pre.fE
          \/ /\ G' = G_new
             /\ embeddings' = new_embeddings
             /\ fG' = File(G_new)
             /\ fE' = File(new_embeddings)
      ]_vars

\* C7: no step of a rebuild up to the end of training, a failed read, build
\* or training included, changes the graph, the embeddings or any of the
\* three files: when the rebuild fails there, they are as the rebuild found
\* them (only a concurrent insert can have changed them).
C7_FailedRebuildTouchesNothing ==
    [][(rpc \in {"idle", "build", "train"} /\ rpc' # rpc
           /\ rpc' \in {"build", "train", "wgraph", "dead"})
          => UNCHANGED store
      ]_vars

\* C7 witness: a rebuild has failed before its replace step on a store that
\* holds nodes, embeddings and log entries.
C7_Witness ==
    /\ rpc = "dead"
    /\ rres \in {"DatasetReadError", "BuildError", "TrainingError"}
    /\ Nodes(G) # {}
    /\ IsContent(fG) /\ Nodes(fG.v) # {}
    /\ IsContent(fLog) /\ fLog.v # <<>>

\* C8: an insert issued while a rebuild is building or training returns
\* success with its node, edges, embedding and log entry applied (it is
\* neither lost nor half applied by the rebuild's replace step), in runs
\* where no statement fails.
C8_InsertDuringTrainingApplied ==
    [][\A t \in Callers :
          (ipc[t] = "wemb" /\ ipc'[t] = "idle" /\ ires'[t] = "ok" /\ iarg[t].during
              /\ faults' = 0)
          => Applied(t)'
      ]_vars

\* C9: when all callers have returned success from inserts of distinct nodes
\* and no rebuild has run, every call is applied: graph, embeddings, files
\* and log hold the node, edges, embedding and log entry of each.
C9_ConcurrentInsertsAllApplied ==
    ( /\ \A t \in Callers : ipc[t] = "idle" /\ ires[t] = "ok"
      /\ \A t, u \in Callers : t # u => iarg[t].name # iarg[u].name
      /\ rpc = "idle" /\ rres = "none" )
    => \A t \in Callers : Applied(t)

\* C10: in no state, those between the statements of an insert or of a
\* rebuild's swap included, does a lookup find a node whose embedding is not
\* found.
C10_NoNodeWithoutEmbedding ==
    \A id \in Nodes(G) \cup DOMAIN embeddings : HasNode(id) => HasEmbedding(id)

\* ------------------------------------------------------------- C11
\* C11: a rebuild that fails does not end the scheduler loop: whenever the
\* last scheduled rebuild ended in an error the loop is still running, so the
\* job can be invoked at the next daily trigger.
C11_SchedulerSurvivesFailure == rres \in RebuildErrors => rpc # "dead"

\* ------------------------------------------------------------- C12
\* C12: at most one rebuild is in flight: an activation of nightly_retrain
\* triggered while another one is running does not run (it fails at once), so
\* the scheduled activation and a second one are never both inside the
\* function.
C12_OneRebuildInFlight == ~(RebuildRunning /\ ManualRunning)

\* ------------------------------------------------------------- C13
\* C13: every daily trigger instant that comes while the process runs and no
\* rebuild is running gets exactly one invocation of the rebuild: time never
\* moves on while the job is due and not running, the job only starts when
\* it is due, and once it has returned the instant it served is never due
\* again.
C13_OneRebuildPerTrigger ==
    [][/\ now' # now => ~(now >= next_run /\ ~RebuildRunning)
       /\ (rpc = "idle" /\ rpc' \notin {"idle", "dead"}) => now >= next_run
       /\ (rpc = "done" /\ rpc' = "idle") => next_run' > next_run
       /\ IsTrigger(next_run')]_vars

\* ------------------------------------------------------------- C14
\* C14: trigger instants missed while the process was down or a rebuild was
\* running are dropped, not queued: when the process starts and when a
\* rebuild returns, the job is next due at the nearest trigger instant
\* strictly in the future, however many instants were missed.
StartOrReturn ==
    \/ rpc = "done" /\ rpc' = "idle"
    \/ /\ rpc' = "idle" /\ rres' = "none" /\ man' = NoMan
       /\ UNCHANGED <<now, ops, faults>>
C14_MissedTriggersDropped ==
    /\ now < next_run /\ next_run <= now + DayLen
    /\ [][StartOrReturn =>
            /\ now' < next_run' /\ next_run' <= now' + DayLen
            /\ IsTrigger(next_run')]_vars
\* The one rebuild of the behaviour has returned after two trigger instants
\* came while it ran, and the job is due once, in the future.
C14_Witness ==
    /\ ops = 1 /\ rpc = "idle" /\ rres = "ok" /\ missed >= 2
    /\ now < next_run

\* ------------------------------------------------------------- C15
\* C15: a call of add_node_with_neighbors with a type outside job, skill,
\* company ends with ValueError before any mutation: such a call is never
\* past the check, and the step that rejects it leaves the graph, the
\* embeddings and the three files as they were.
InvalidCallStep == ops' = ops + 1 /\ ipc' = ipc /\ rpc' = rpc /\ man' = man
C15_InvalidTypeRejected ==
    /\ [](\A t \in Callers :
            iarg[t].type \notin NodeTypes \cup {""}
                => ipc[t] = "idle" /\ ires[t] = "ValueError")
    /\ [][InvalidCallStep => UNCHANGED store]_vars
\* An insert has put its node into the graph, the graph file and the log,
\* and the call made after it has been rejected.
C15_Witness ==
    /\ ires["t1"] = "ValueError" /\ iarg["t1"].type \notin NodeTypes
    /\ iarg["t2"] = NoArg /\ rpc = "idle" /\ rres = "none"
    /\ Nodes(G) # {} /\ IsContent(fG) /\ Nodes(fG.v) # {}
    /\ IsContent(fLog) /\ Len(fLog.v) > 0

\* ------------------------------------------------------------- C16
\* C16: when a call of add_node_with_neighbors or nightly_retrain returns
\* with success, the two files hold exactly the graph and the embeddings
\* that are in memory at that moment, so that a restart loads them back.
ReturnsOk ==
    \/ \E t \in Callers : ipc[t] = "wemb" /\ ipc'[t] = "idle" /\ ires'[t] = "ok"
    \/ rpc = "done" /\ rpc' = "idle" /\ rres' = "ok"
C16_PersistLoadRoundTrip ==
    [][ReturnsOk => Load(fG', fE') = [G |-> G', embeddings |-> embeddings']]_vars

\* ------------------------------------------------------------- C17
\* C17: the load at startup ends in a whole store whatever the files are
\* like, never in half of one: when both files can be read the graph and the embeddings are
\* what the files hold, and when either file is missing or corrupt the
\* graph and the embeddings are both empty.
StartStep ==
    /\ rpc' = "idle" /\ rres' = "none" /\ man' = NoMan
    /\ ipc' = [t \in Callers |-> "idle"]
    /\ iarg' = [t \in Callers |-> NoArg]
    /\ ires' = [t \in Callers |-> "none"]
    /\ UNCHANGED <<fG, fE, ops, faults, now>>
C17_LoadNeverHalf ==
    [][StartStep =>
         \/ /\ IsContent(fG) /\ IsContent(fE)
            /\ G' = fG.v /\ embeddings' = fE.v
         \/ /\ ~(IsContent(fG) /\ IsContent(fE))
            /\ G' = EmptyGraph /\ embeddings' = EmptyEmb]_vars
\* The process has started on a readable graph file that holds nodes and
\* an embeddings file that is missing or corrupt, and runs on the empty
\* graph and the empty dict.
C17_Witness ==
    /\ iarg = [t \in Callers |-> NoArg] /\ ires = [t \in Callers |-> "none"]
    /\ rpc = "idle" /\ rres = "none"
    /\ IsContent(fG) /\ Nodes(fG.v) # {} /\ ~IsContent(fE)
    /\ G = EmptyGraph /\ embeddings = EmptyEmb

\* ------------------------------------------------------------- C18
\* C18: when at least one of the neighbors of a call has an embedding, the
\* node's embedding becomes the elementwise mean of the embeddings of the
\* listed neighbors that have one, and the neighbors without one do not
\* count: in every component, the number of such neighbors times the new
\* value is the sum of their values.
EmbedStep(t) == ipc[t] = "embed" /\ ipc'[t] = "logread"
Embedded(nbrs, emb) == {k \in 1..Len(nbrs) : nbrs[k] \in DOMAIN emb}
RECURSIVE ComponentSum(_, _, _, _)
ComponentSum(ks, nbrs, emb, i) ==
    IF ks = {} THEN <<0, 1>>
    ELSE LET k == CHOOSE x \in ks : TRUE
         IN  RatAdd(emb[nbrs[k]][i], ComponentSum(ks \ {k}, nbrs, emb, i))
RatTimes(p, c) == Rat(p[1] * c, p[2])
IsMeanOfEmbedded(v, nbrs, emb) ==
    /\ Len(v) = EmbDim
    /\ \A i \in 1..EmbDim :
          RatTimes(v[i], Cardinality(Embedded(nbrs, emb)))
              = ComponentSum(Embedded(nbrs, emb), nbrs, emb, i)
C18_MeanOfEmbeddedNeighbors ==
    [][\A t \in Callers :
          (EmbedStep(t) /\ Embedded(iarg[t].neighbors, embeddings) # {})
              => /\ iarg[t].name \in DOMAIN embeddings'
                 /\ IsMeanOfEmbedded(embeddings'[iarg[t].name],
                                     iarg[t].neighbors, embeddings)]_vars
\* A call that names a new job and two neighbors with different embeddings
\* has set the job's embedding, and it is neither neighbor's.
C18_Witness ==
    \E t \in Callers :
        LET a == iarg[t] IN
        /\ ipc[t] = "logread" /\ a.fresh /\ Len(a.neighbors) = 2
        /\ a.name \notin Range(a.neighbors)
        /\ Range(a.neighbors) \cup {a.name} \subseteq DOMAIN embeddings
        /\ embeddings[a.neighbors[1]] # embeddings[a.neighbors[2]]
        /\ embeddings[a.name] \notin {embeddings[a.neighbors[1]],
                                      embeddings[a.neighbors[2]]}

\* ------------------------------------------------------------- C20
\* C20: a call that names a node and neighbors an earlier call has already
\* linked adds no edge and changes none (the graph keeps one edge per pair),
\* and it sets the node's embedding again from the embeddings its neighbors
\* have now: their mean, or a fresh draw when none has one, whatever value
\* was stored for the node before.
NeighborsStep(t) == ipc[t] = "neighbors" /\ ipc'[t] = "embed"
AlreadyLinked(a) ==
    /\ a.name \in Nodes(G)
    /\ \A k \in 1..Len(a.neighbors) : {a.name, a.neighbors[k]} \in Edges(G)
C20_ReinsertRecomputes ==
    [][\A t \in Callers :
          /\ (NeighborsStep(t) /\ AlreadyLinked(iarg[t]))
                => G'.edge = G.edge /\ Nodes(G') = Nodes(G)
          /\ (EmbedStep(t) /\ AlreadyLinked(iarg[t])
                /\ iarg[t].name \in DOMAIN embeddings)
                => IF Embedded(iarg[t].neighbors, embeddings) # {}
                   THEN IsMeanOfEmbedded(embeddings'[iarg[t].name],
                                         iarg[t].neighbors, embeddings)
                   ELSE \E d \in ColdDraws :
                           embeddings'[iarg[t].name] = ColdVec(d)]_vars
\* On a store built by a rebuild, the same call has been made twice for the
\* skill g with the neighbors g and a: the first returned with its value
\* written to the file, and after the second g's embedding is the mean taken
\* again over that value, and differs from it.
C20_Witness ==
    LET g == SkillId(<<"g">>)
        a == CompanyId(<<"a">>)
    IN  /\ ops = 2 /\ ipc["t1"] = "logread" /\ rpc = "idle" /\ rres = "none"
        /\ iarg["t1"].name = g /\ iarg["t1"].neighbors = <<g, a>>
        /\ {g, a} \subseteq DOMAIN embeddings
        /\ \E seed \in TrainSeeds :
              LET first == MeanVec(<<TrainedVec(g, seed), TrainedVec(a, seed)>>)
              IN  /\ embeddings[a] = TrainedVec(a, seed)
                  /\ embeddings[g] = MeanVec(<<first, embeddings[a]>>)
                  /\ embeddings[g] # first
                  /\ faults = 0 /\ IsContent(fE) /\ fE.v[g] = first

\* ------------------------------------------------------------- C21
\* The dataset as the claims count it: its job ids, its companies, the
\* skills of a row (the pieces of its required_skills cell, stripped) and
\* the skills of all rows.
Built == rpc \in {"train", "wgraph", "wemb", "swapG", "swapE", "clear", "done"}
SkillList(row) == Split(row.required_skills)
SkillsOf(row) == {Strip(SkillList(row)[k]) : k \in 1..Len(SkillList(row))}
JobIdsIn(rows) == {rows[k].job_id : k \in 1..Len(rows)}
CompaniesIn(rows) == {rows[k].company : k \in 1..Len(rows)}
SkillsIn(rows) == UNION {SkillsOf(rows[k]) : k \in 1..Len(rows)}
RECURSIVE SkillCount(_)
SkillCount(rows) ==
    IF rows = <<>> THEN 0 ELSE Len(SkillList(Head(rows))) + SkillCount(Tail(rows))
\* C21 as stated: the graph a rebuild builds has one node per job row, per
\* distinct company and per distinct skill, and one edge per job row plus
\* one per entry of each row's list of required skills.
C21_CountsByRowsAndEntries ==
    Built =>
        /\ Cardinality(Nodes(G_new))
             = Len(jobs) + Cardinality(CompaniesIn(jobs)) + Cardinality(SkillsIn(jobs))
        /\ Cardinality(Edges(G_new)) = Len(jobs) + SkillCount(jobs)
\* C21 as amended: one node per distinct job id, company and skill; one
\* edge per distinct pair of a job id and its company and per distinct pair
\* of a job id and one of its skills.
C21_CountsByDistinct ==
    Built =>
        /\ Cardinality(Nodes(G_new))
             = Cardinality(JobIdsIn(jobs)) + Cardinality(CompaniesIn(jobs))
               + Cardinality(SkillsIn(jobs))
        /\ Cardinality(Edges(G_new))
             = Cardinality({<<jobs[k].job_id, jobs[k].company>> : k \in 1..Len(jobs)})
               + Cardinality(UNION {{<<jobs[k].job_id, x>> : x \in SkillsOf(jobs[k])} :
                                       k \in 1..Len(jobs)})
\* A graph has been built from two rows of which one lists a skill twice:
\* it has fewer edges than rows plus list entries.
C21_Witness ==
    /\ Built /\ Len(jobs) = 2
    /\ \E k \in 1..2 : Cardinality(SkillsOf(jobs[k])) < Len(SkillList(jobs[k]))
    /\ Cardinality(Edges(G_new)) < Len(jobs) + SkillCount(jobs)

\* ------------------------------------------------------------- C22
\* C22: the type of a node never changes: a statement of
\* add_node_with_neighbors that works on the graph leaves every node that
\* has a type, and stays in the graph, with that type.
InsertGraphStep ==
    \E t \in Callers :
        \/ ipc[t] = "idle" /\ ipc'[t] = "neighbors"
        \/ ipc[t] = "neighbors" /\ ipc'[t] = "embed"
C22_TypeImmutable ==
    [][InsertGraphStep =>
         \A n \in Nodes(G) \cap Nodes(G') :
             NodeType(G, n) # NoType => NodeType(G', n) = NodeType(G, n)]_vars

\* ------------------------------------------------------------- C23
\* C23: in every state the stored type of every node of the graph agrees
\* with the prefix of its id: job_ with job, skill_ with skill, company_
\* with company.
PrefixType(n) ==
    IF startswith(n, "job_") THEN "job"
    ELSE IF startswith(n, "skill_") THEN "skill"
    ELSE IF startswith(n, "company_") THEN "company" ELSE NoType
C23_TypeAgreesWithPrefix ==
    \A n \in Nodes(G) : PrefixType(n) # NoType => NodeType(G, n) = PrefixType(n)

\* ------------------------------------------------------------- C24
\* C24: between two successful rebuilds the log is append-only: with no
\* statement failing, every step other than the clearing of the log by a
\* rebuild leaves the entries of the log in place, in their order, and adds
\* at most one entry after them.
IsPrefix(s, r) == Len(s) <= Len(r) /\ SubSeq(r, 1, Len(s)) = s
ClearStep == rpc = "clear" /\ rpc' = "done"
C24_LogAppendOnly ==
    [][(faults' = 0 /\ ~ClearStep) =>
         /\ IsPrefix(fLog.v, fLog'.v)
         /\ Len(fLog'.v) <= Len(fLog.v) + 1]_vars

\* ------------------------------------------------------------- C25
\* C25: when the loop over the neighbors of a call has run, every listed
\* neighbor is a node of the graph joined to the call's node by an edge, and
\* a neighbor with a known prefix that was not in the graph before has the
\* type of its prefix.
C25_NeighborsLinked ==
    [][\A t \in Callers :
          NeighborsStep(t) =>
              \A n \in Range(iarg[t].neighbors) :
                  /\ n \in Nodes(G')
                  /\ {iarg[t].name, n} \in Edges(G')
                  /\ (n \notin Nodes(G) /\ PrefixType(n) # NoType)
                        => NodeType(G', n) = PrefixType(n)]_vars
\* The first call on the empty graph has listed two neighbors: both are
\* now nodes with the type of their prefix, each joined to the call's node.
C25_Witness ==
    \E t \in Callers :
        /\ ops = 1 /\ rpc = "idle" /\ rres = "none" /\ ipc[t] = "embed"
        /\ Cardinality(Range(iarg[t].neighbors)) = 2
        /\ \A n \in Range(iarg[t].neighbors) :
              /\ n \in Nodes(G) /\ NodeType(G, n) = PrefixType(n)
              /\ PrefixType(n) # NoType
              /\ {iarg[t].name, n} \in Edges(G)

\* ------------------------------------------------------------- C26
\* C26: in every state both endpoints of every edge of the graph are nodes
\* that were created with a type: no edge is recorded to an id that was
\* not made a node first.
C26_EdgeEndpointsTyped ==
    \A e \in Edges(G) : \A n \in e : n \in Nodes(G) /\ NodeType(G, n) # NoType

\* ------------------------------------------------------------- C27
\* C27: a neighbor id with none of the three prefixes is either refused or
\* stored with a type that says so: in no state does the graph hold a node
\* without a type attribute.
C27_NoUntypedNode == \A n \in Nodes(G) : "type" \in DOMAIN G.node[n]

\* ------------------------------------------------------------- C28
\* C28: a rebuild clears the log only after its fresh snapshot has been
\* persisted and swapped in: at the step that empties the log, the two
\* files hold the graph and the embeddings this rebuild built; when the
\* rebuild stops earlier, by an error or a restart, the log is not emptied.
C28_ClearAfterPersist ==
    [][/\ ClearStep =>
            /\ fG = File(G_new) /\ fE = File(new_embeddings)
       /\ (rpc # "clear" /\ rpc' \in {"dead", "idle"} /\ IsContent(fLog)
             /\ ~(\E t \in Callers : ipc[t] # ipc'[t]))
            => fLog' = fLog]_vars

\* ------------------------------------------------------------- C29
\* C29: in the graph a rebuild builds, the nodes are the jobs, companies
\* and skills of the dataset with the types job, company and skill; the
\* edges are the pairs of a job and its company, labelled POSTED_BY, and of
\* a job and each of its skills, labelled REQUIRES_SKILL, and no others.
PostedBy(rows) ==
    {{JobId(rows[k].job_id), CompanyId(rows[k].company)} : k \in 1..Len(rows)}
RequiresSkill(rows) ==
    UNION {{{JobId(rows[k].job_id), SkillId(x)} : x \in SkillsOf(rows[k])} :
              k \in 1..Len(rows)}
C29_BuiltGraphTypedAndLabelled ==
    Built =>
        /\ Nodes(G_new) = {JobId(x) : x \in JobIdsIn(jobs)}
                          \cup {CompanyId(x) : x \in CompaniesIn(jobs)}
                          \cup {SkillId(x) : x \in SkillsIn(jobs)}
        /\ \A x \in JobIdsIn(jobs) : NodeType(G_new, JobId(x)) = "job"
        /\ \A x \in CompaniesIn(jobs) : NodeType(G_new, CompanyId(x)) = "company"
        /\ \A x \in SkillsIn(jobs) : NodeType(G_new, SkillId(x)) = "skill"
        /\ Edges(G_new) = PostedBy(jobs) \cup RequiresSkill(jobs)
        /\ \A e \in PostedBy(jobs) : EdgeRel(G_new, e) = "POSTED_BY"
        /\ \A e \in RequiresSkill(jobs) : EdgeRel(G_new, e) = "REQUIRES_SKILL"
\* A graph has been built from two rows with two companies and two skills
\* and holds edges of both labels.
C29_Witness ==
    /\ Built /\ Len(jobs) = 2
    /\ Cardinality(CompaniesIn(jobs)) = 2 /\ Cardinality(SkillsIn(jobs)) = 2
    /\ \E e, f \in Edges(G_new) :
          EdgeRel(G_new, e) = "POSTED_BY" /\ EdgeRel(G_new, f) = "REQUIRES_SKILL"

\* ------------------------------------------------------------- C30
\* C30: a call of add_node_with_neighbors changes nothing outside its
\* target: each of its statements leaves every other node that was in the
\* graph with its type and attributes, every other embedding as it was,
\* every edge that was in the graph in place with its label, and adds only
\* edges at its own node.
InsertStepOf(t) == ipc'[t] # ipc[t] /\ ~(ipc'[t] = "idle" /\ ires'[t] = "none")
C30_InsertFrame ==
    [][\A t \in Callers :
          InsertStepOf(t) =>
              LET name == iarg'[t].name IN
              /\ \A n \in Nodes(G) \ {name} :
                    n \in Nodes(G') /\ G'.node[n] = G.node[n]
              /\ \A e \in Edges(G) : e \in Edges(G') /\ G'.edge[e] = G.edge[e]
              /\ \A e \in Edges(G') \ Edges(G) : name \in e
              /\ DOMAIN embeddings' \subseteq DOMAIN embeddings \cup {name}
              /\ \A n \in DOMAIN embeddings \ {name} :
                    n \in DOMAIN embeddings' /\ embeddings'[n] = embeddings[n]]_vars
\* A call for job_2 has run its statements on a graph a rebuild built: its
\* neighbors have the embeddings the rebuild trained, and the rebuild's
\* labelled edges are in the graph.
C30_Witness ==
    \E t \in Callers :
        /\ ipc[t] = "logread" /\ iarg[t].name = JobId(<<"2">>)
        /\ Len(iarg[t].neighbors) = 2
        /\ JobId(<<"2">>) \in DOMAIN embeddings
        /\ \E seed \in TrainSeeds :
              \A n \in Range(iarg[t].neighbors) :
                  n \in DOMAIN embeddings /\ embeddings[n] = TrainedVec(n, seed)
        /\ \E e \in Edges(G) :
              JobId(<<"2">>) \notin e /\ EdgeRel(G, e) = "REQUIRES_SKILL"

\* ------------------------------------------------------------- C31
\* C31: in every state of the store in memory, every key of the embeddings
\* table is a node of the graph.
C31_NoOrphanEmbedding == DOMAIN embeddings \subseteq Nodes(G)

\* ------------------------------------------------------------- C32
\* C32: what a call does to the graph and to the node's embedding depends
\* only on the set of the listed neighbor ids: the loop adds the ids of the
\* set and one edge to each, and when some id of the set has an embedding,
\* the node's embedding becomes the mean over the set, each id counted
\* once however often and wherever the list names it.
EmbeddedIds(nbrs, emb) == Range(nbrs) \cap DOMAIN emb
RECURSIVE IdSum(_, _, _)
IdSum(ids, emb, i) ==
    IF ids = {} THEN <<0, 1>>
    ELSE LET n == CHOOSE x \in ids : TRUE
         IN  RatAdd(emb[n][i], IdSum(ids \ {n}, emb, i))
IsMeanOverSet(v, ids, emb) ==
    /\ Len(v) = EmbDim
    /\ \A i \in 1..EmbDim : RatTimes(v[i], Cardinality(ids)) = IdSum(ids, emb, i)
C32_DependsOnNeighborSet ==
    [][\A t \in Callers :
          /\ NeighborsStep(t) =>
                /\ Nodes(G') = Nodes(G) \cup Range(iarg[t].neighbors)
                /\ Edges(G') = Edges(G) \cup {{iarg[t].name, n} :
                                                n \in Range(iarg[t].neighbors)}
          /\ (EmbedStep(t) /\ EmbeddedIds(iarg[t].neighbors, embeddings) # {})
                => IsMeanOverSet(embeddings'[iarg[t].name],
                                 EmbeddedIds(iarg[t].neighbors, embeddings),
                                 embeddings)]_vars

\* ------------------------------------------------------------- C33
\* C33: the CV submission flow never stores a failed download: no document
\* of the collection is an error string, and once download_and_parse_cv
\* has returned a string starting with "ERROR:" to process_cv_submission,
\* the handler calls neither extract_skills_and_link_kg nor
\* save_to_vector_store and answers with a failure.
C33_FailedDownloadNotStored ==
    /\ \A d \in job_cv_collection.docs : ~StartsWith(d.document, "ERROR:")
    /\ (/\ endpoint = "process_cv_submission"
        /\ cpc \in {"save", "replied"}
        /\ StartsWith(cv_text, "ERROR:"))
          => /\ calls = <<"download_and_parse_cv">>
             /\ cpc = "replied"
             /\ ~reply.success

\* ------------------------------------------------------------- C34
\* C34: download_and_parse_cv never raises: no exception leaves it, what it
\* returns is the text of the PDF or a string starting with "ERROR:", and
\* it is such a string when the Google Drive link holds no file id, when
\* every candidate URL failed, when the content cannot be read or is not a
\* PDF, and when the PDF cannot be parsed.
DownloadReturned == cpc \in {"returned", "save", "replied"}
AllAttemptsFailed ==
    /\ urls_to_try # <<>>
    /\ Len(tried) = Len(urls_to_try)
    /\ \A k \in 1..Len(tried) : tried[k].status # 200
C34_DownloadNeverRaises ==
    /\ raised = None
    /\ DownloadReturned =>
          /\ cv_text \in Texts \/ StartsWith(cv_text, "ERROR:")
          /\ (Contains(resume_url, "drive.google.com") /\ FileId(resume_url) = <<>>)
                => StartsWith(cv_text, "ERROR:")
          /\ AllAttemptsFailed => StartsWith(cv_text, "ERROR:")
          /\ (response.status = 200 /\ ~response.body.readable)
                => StartsWith(cv_text, "ERROR:")
          /\ (response.status = 200 /\ ~response.body.magic
                /\ response.body.ctype # "application/pdf")
                => StartsWith(cv_text, "ERROR:")
          /\ (response.status = 200 /\ response.body.pages = Unparsable)
                => StartsWith(cv_text, "ERROR:")
\* The function has returned after three attempts of which one was answered
\* 404 and one raised a connection error, and none 200.
C34_Witness ==
    /\ cpc = "returned" /\ AllAttemptsFailed /\ Len(tried) = 3
    /\ \E j, k \in 1..3 : tried[j].status = 404 /\ tried[k].status = 0
    /\ StartsWith(cv_text, "ERROR:")

\* ------------------------------------------------------------- C35
\* C35: for a Cloudinary URL, once the loop of the direct download is over,
\* its requests were, in this order, for the raw format of the URL (when
\* its path has /image/upload/), for the URL without its query and for the
\* URL as given; no request before the last was answered 200; the loop
\* ended before the last candidate only on a 200, so a 401 or a request
\* error went on to the next candidate; the response the function goes on
\* with is the one answered 200; and "ERROR: Download failed" is returned
\* only when no request was answered 200.
LoopOver ==
    /\ cpc \in {"after", "verify", "returned", "save", "replied"}
    /\ urls_to_try # <<>>
IsCloudinary(u) == Contains(u, "cloudinary.com") /\ ContainsUpload(u)
CandidateOrder(u) ==
    LET stripped == SplitHead(u, "?")
    IN  (IF Contains(stripped, "/image/upload/")
         THEN << Replace(stripped, "/image/upload/", "/raw/upload/") >>
         ELSE <<>>) \o <<stripped, u>>
C35_CandidatesInOrder ==
    (LoopOver /\ IsCloudinary(original_url)) =>
        LET n == Len(tried) IN
        /\ n >= 1 /\ n <= Len(CandidateOrder(original_url))
        /\ \A k \in 1..n : tried[k].url = CandidateOrder(original_url)[k]
        /\ \A k \in 1..(n - 1) : tried[k].status # 200
        /\ n < Len(CandidateOrder(original_url)) => tried[n].status = 200
        /\ tried[n].status = 200
              => response = [status |-> 200, body |-> tried[n].body]
        /\ (cpc # "after" /\ IsPrefix(<<"ERROR:", "Download failed.">>, cv_text))
              => \A k \in 1..n : tried[k].status # 200
\* A Cloudinary URL with an /image/ path and a query was asked for three
\* times: 401 for the raw format, a connection error for the URL without
\* its query, 200 for the URL as given, whose text was returned.
C35_Witness ==
    /\ cpc = "returned" /\ IsCloudinary(original_url) /\ Len(tried) = 3
    /\ Contains(original_url, "?")
    /\ tried[1].status = 401 /\ Contains(tried[1].url, "/raw/upload/")
    /\ tried[2].status = 0 /\ tried[3].status = 200
    /\ tried[3].url = original_url
    /\ cv_text = <<"Python", "SQL">>

====
